---- MODULE Spec2Model ----
(***************************************************************************)
(* A model of the sgf package (sgf.go) and of its parse package (the lexer *)
(* and the recursive-descent parser).                                      *)
(*                                                                         *)
(* Bytes are modelled as one-character strings; a buffer, an identity and  *)
(* a value text are sequences of bytes.  The byte 0 is written eof, as the *)
(* lexer does.  Go errors are modelled by their message, the nil error by  *)
(* ErrNil.  A pointer that may be nil is a sequence of length 0 or 1.      *)
(***************************************************************************)
EXTENDS Integers, Sequences, FiniteSets, TLC

VARIABLES
    input,      \* the data handed to Parse, lexer.input
    l,          \* the lexer's fields: state, pos, start, width, treeDepth
    lpc,        \* where the lexer goroutine stands inside its state function
    items,      \* the unbuffered channel l.items: the send waiting for its receive
    closed,     \* close(l.items) has run
    parser,     \* the parser's frames and locals, and what Parse returns
    received,   \* the items the parser has received so far, in order
    prop,       \* the Property under construction through the sgf API
    perr        \* the error returned by the last NewProperty / AddValue

vars == <<input, l, lpc, items, closed, parser, received, prop, perr>>

(***************************************************************************)
(* Bounds of the model.                                                    *)
(***************************************************************************)
MaxLen == 3
MaxValueLen == 2
MaxValues == 2

(***************************************************************************)
(* Bytes and errors.                                                       *)
(***************************************************************************)
eof == "NUL"

ErrNil == "<nil>"

UpperCase ==
    {"A", "B", "C", "D", "E", "F", "G", "H", "I", "J", "K", "L", "M",
     "N", "O", "P", "Q", "R", "S", "T", "U", "V", "W", "X", "Y", "Z"}

Digits == {"0", "1", "2", "3", "4", "5", "6", "7", "8", "9"}

\* In applied to the value of v: a value used in several places is written
\* and computed once
With(v, In(_)) == [u \in {v} |-> In(u)][v]

RECURSIVE Str(_)
Str(bytes) == IF bytes = <<>> THEN "" ELSE Head(bytes) \o Str(Tail(bytes))

RECURSIVE BoundedSeq(_, _)
BoundedSeq(S, n) ==
    IF n = 0 THEN {<<>>}
    ELSE LET shorter == BoundedSeq(S, n - 1)
         IN  shorter \cup {Append(s, x) : s \in shorter, x \in S}

(***************************************************************************)
(* sgf.go: the property type registry.                                     *)
(***************************************************************************)
propertyTypeMap ==
    <<>> :> [d |-> "Empty property", t |-> "PropertyTypeUnknown", vn |-> "none", l |-> "propertyNotList"]
    @@ <<"B">> :> [d |-> "Black", t |-> "PropertyTypeMove", vn |-> "move", l |-> "propertyNotList"]
    @@ <<"B", "L">> :> [d |-> "Black time left", t |-> "PropertyTypeMove", vn |-> "real", l |-> "propertyNotList"]
    @@ <<"B", "M">> :> [d |-> "Bad move", t |-> "PropertyTypeMove", vn |-> "double", l |-> "propertyNotList"]
    @@ <<"D", "O">> :> [d |-> "Doubtful", t |-> "PropertyTypeMove", vn |-> "none", l |-> "propertyNotList"]
    @@ <<"I", "T">> :> [d |-> "Interesting", t |-> "PropertyTypeMove", vn |-> "none", l |-> "propertyNotList"]
    @@ <<"K", "O">> :> [d |-> "Ko", t |-> "PropertyTypeMove", vn |-> "none", l |-> "propertyNotList"]
    @@ <<"M", "N">> :> [d |-> "set MoveNumber", t |-> "PropertyTypeMove", vn |-> "none", l |-> "propertyNotList"]
    @@ <<"O", "B">> :> [d |-> "OtStones Black", t |-> "PropertyTypeMove", vn |-> "number", l |-> "propertyNotList"]
    @@ <<"O", "W">> :> [d |-> "OtStones White", t |-> "PropertyTypeMove", vn |-> "number", l |-> "propertyNotList"]
    @@ <<"T", "E">> :> [d |-> "Tesuji", t |-> "PropertyTypeMove", vn |-> "double", l |-> "propertyNotList"]
    @@ <<"W">> :> [d |-> "White", t |-> "PropertyTypeMove", vn |-> "move", l |-> "propertyNotList"]
    @@ <<"W", "L">> :> [d |-> "White time left", t |-> "PropertyTypeMove", vn |-> "real", l |-> "propertyNotList"]
    @@ <<"A", "B">> :> [d |-> "Add Black", t |-> "PropertyTypeSetup", vn |-> "stone", l |-> "propertyList"]
    @@ <<"A", "E">> :> [d |-> "Add Empty", t |-> "PropertyTypeSetup", vn |-> "point", l |-> "propertyList"]
    @@ <<"A", "W">> :> [d |-> "Add White", t |-> "PropertyTypeSetup", vn |-> "stone", l |-> "propertyList"]
    @@ <<"P", "L">> :> [d |-> "Player to play", t |-> "PropertyTypeSetup", vn |-> "color", l |-> "propertyNotList"]
    @@ <<"A", "R">> :> [d |-> "Arrow", t |-> "PropertyTypeNull", vn |-> "point : point", l |-> "propertyList"]
    @@ <<"C">> :> [d |-> "Comment", t |-> "PropertyTypeNull", vn |-> "text", l |-> "propertyNotList"]
    @@ <<"C", "R">> :> [d |-> "Circle", t |-> "PropertyTypeNull", vn |-> "point", l |-> "propertyList"]
    @@ <<"D", "D">> :> [d |-> "Dim points", t |-> "PropertyTypeNull", vn |-> "point", l |-> "propertyEList"]
    @@ <<"D", "M">> :> [d |-> "Even position", t |-> "PropertyTypeNull", vn |-> "double", l |-> "propertyNotList"]
    @@ <<"F", "G">> :> [d |-> "Figure", t |-> "PropertyTypeNull", vn |-> "none | number : simpletext", l |-> "propertyNotList"]
    @@ <<"G", "B">> :> [d |-> "Good for Black", t |-> "PropertyTypeNull", vn |-> "double", l |-> "propertyNotList"]
    @@ <<"G", "W">> :> [d |-> "Good for White", t |-> "PropertyTypeNull", vn |-> "double", l |-> "propertyNotList"]
    @@ <<"H", "O">> :> [d |-> "Hotspot", t |-> "PropertyTypeNull", vn |-> "double", l |-> "propertyNotList"]
    @@ <<"L", "B">> :> [d |-> "Label", t |-> "PropertyTypeNull", vn |-> "point : simpletext", l |-> "propertyList"]
    @@ <<"L", "N">> :> [d |-> "Line", t |-> "PropertyTypeNull", vn |-> "point : point", l |-> "propertyList"]
    @@ <<"M", "A">> :> [d |-> "Mark", t |-> "PropertyTypeNull", vn |-> "point", l |-> "propertyList"]
    @@ <<"N">> :> [d |-> "Nodename", t |-> "PropertyTypeNull", vn |-> "simpletext", l |-> "propertyNotList"]
    @@ <<"P", "M">> :> [d |-> "Print move mode", t |-> "PropertyTypeNull", vn |-> "number", l |-> "propertyNotList"]
    @@ <<"S", "L">> :> [d |-> "Selected", t |-> "PropertyTypeNull", vn |-> "point", l |-> "propertyList"]
    @@ <<"S", "Q">> :> [d |-> "Square", t |-> "PropertyTypeNull", vn |-> "point", l |-> "propertyList"]
    @@ <<"T", "R">> :> [d |-> "Triangle", t |-> "PropertyTypeNull", vn |-> "point", l |-> "propertyList"]
    @@ <<"U", "C">> :> [d |-> "Unclear pos", t |-> "PropertyTypeNull", vn |-> "double", l |-> "propertyNotList"]
    @@ <<"V", "W">> :> [d |-> "View", t |-> "PropertyTypeNull", vn |-> "point", l |-> "propertyEList"]
    @@ <<"A", "P">> :> [d |-> "Application", t |-> "PropertyTypeRoot", vn |-> "simpletext : number", l |-> "propertyNotList"]
    @@ <<"C", "A">> :> [d |-> "Charset", t |-> "PropertyTypeRoot", vn |-> "simpletext", l |-> "propertyNotList"]
    @@ <<"F", "F">> :> [d |-> "Fileformat", t |-> "PropertyTypeRoot", vn |-> "number", l |-> "propertyNotList"]
    @@ <<"G", "M">> :> [d |-> "Game", t |-> "PropertyTypeRoot", vn |-> "number", l |-> "propertyNotList"]
    @@ <<"S", "T">> :> [d |-> "Style", t |-> "PropertyTypeRoot", vn |-> "number", l |-> "propertyNotList"]
    @@ <<"S", "Z">> :> [d |-> "Size", t |-> "PropertyTypeRoot", vn |-> "number | number : number", l |-> "propertyNotList"]
    @@ <<"A", "N">> :> [d |-> "Annotation", t |-> "PropertyTypeGameInfo", vn |-> "simpletext", l |-> "propertyNotList"]
    @@ <<"B", "R">> :> [d |-> "Black rank", t |-> "PropertyTypeGameInfo", vn |-> "simpletext", l |-> "propertyNotList"]
    @@ <<"B", "T">> :> [d |-> "Black team", t |-> "PropertyTypeGameInfo", vn |-> "simpletext", l |-> "propertyNotList"]
    @@ <<"C", "P">> :> [d |-> "Copyright", t |-> "PropertyTypeGameInfo", vn |-> "simpletext", l |-> "propertyNotList"]
    @@ <<"D", "T">> :> [d |-> "Date", t |-> "PropertyTypeGameInfo", vn |-> "simpletext", l |-> "propertyNotList"]
    @@ <<"E", "V">> :> [d |-> "Event", t |-> "PropertyTypeGameInfo", vn |-> "simpletext", l |-> "propertyNotList"]
    @@ <<"G", "C">> :> [d |-> "Game comment", t |-> "PropertyTypeGameInfo", vn |-> "text", l |-> "propertyNotList"]
    @@ <<"G", "N">> :> [d |-> "Game name", t |-> "PropertyTypeGameInfo", vn |-> "simpletext", l |-> "propertyNotList"]
    @@ <<"O", "P">> :> [d |-> "Opening", t |-> "PropertyTypeGameInfo", vn |-> "simpletext", l |-> "propertyNotList"]
    @@ <<"P", "B">> :> [d |-> "Player Black", t |-> "PropertyTypeGameInfo", vn |-> "simpletext", l |-> "propertyNotList"]
    @@ <<"P", "C">> :> [d |-> "Place", t |-> "PropertyTypeGameInfo", vn |-> "simpletext", l |-> "propertyNotList"]
    @@ <<"P", "W">> :> [d |-> "Player White", t |-> "PropertyTypeGameInfo", vn |-> "simpletext", l |-> "propertyNotList"]
    @@ <<"R", "E">> :> [d |-> "Result", t |-> "PropertyTypeGameInfo", vn |-> "simpletext", l |-> "propertyNotList"]
    @@ <<"R", "O">> :> [d |-> "Round", t |-> "PropertyTypeGameInfo", vn |-> "simpletext", l |-> "propertyNotList"]
    @@ <<"R", "U">> :> [d |-> "Rules", t |-> "PropertyTypeGameInfo", vn |-> "simpletext", l |-> "propertyNotList"]
    @@ <<"S", "O">> :> [d |-> "Source", t |-> "PropertyTypeGameInfo", vn |-> "simpletext", l |-> "propertyNotList"]
    @@ <<"T", "M">> :> [d |-> "Timelimit", t |-> "PropertyTypeGameInfo", vn |-> "real", l |-> "propertyNotList"]
    @@ <<"U", "S">> :> [d |-> "User", t |-> "PropertyTypeGameInfo", vn |-> "simpletext", l |-> "propertyNotList"]
    @@ <<"W", "R">> :> [d |-> "White rank", t |-> "PropertyTypeGameInfo", vn |-> "simpletext", l |-> "propertyNotList"]
    @@ <<"W", "T">> :> [d |-> "White team", t |-> "PropertyTypeGameInfo", vn |-> "simpletext", l |-> "propertyNotList"]
    @@ <<"T", "B">> :> [d |-> "Territory Black", t |-> "PropertyTypeNull", vn |-> "point", l |-> "propertyEList"]
    @@ <<"T", "W">> :> [d |-> "Territory White", t |-> "PropertyTypeNull", vn |-> "point", l |-> "propertyEList"]
    @@ <<"H", "A">> :> [d |-> "Handicap", t |-> "PropertyTypeGameInfo", vn |-> "number", l |-> "propertyNotList"]
    @@ <<"K", "M">> :> [d |-> "Komi", t |-> "PropertyTypeGameInfo", vn |-> "real", l |-> "propertyNotList"]
    @@ <<"A", "S">> :> [d |-> "Who adds stones", t |-> "PropertyTypeNull", vn |-> "simpletext", l |-> "propertyNotList"]
    @@ <<"I", "P">> :> [d |-> "Initial pos.", t |-> "PropertyTypeGameInfo", vn |-> "simpletext", l |-> "propertyNotList"]
    @@ <<"I", "Y">> :> [d |-> "Invert Y-axis", t |-> "PropertyTypeGameInfo", vn |-> "simpletext", l |-> "propertyNotList"]
    @@ <<"S", "E">> :> [d |-> "Markup", t |-> "PropertyTypeNull", vn |-> "point", l |-> "propertyNotList"]
    @@ <<"S", "U">> :> [d |-> "Setup type", t |-> "PropertyTypeGameInfo", vn |-> "simpletext", l |-> "propertyNotList"]


(***************************************************************************)
(* strings.Split of a validator name on " | " and of an alternative on     *)
(* " : ", tabulated for the validator names of the registry and "unknown". *)
(***************************************************************************)
SplitAlternatives(vn) ==
    CASE vn = "color" -> <<"color">>
      [] vn = "double" -> <<"double">>
      [] vn = "move" -> <<"move">>
      [] vn = "none" -> <<"none">>
      [] vn = "none | number : simpletext" -> <<"none", "number : simpletext">>
      [] vn = "number" -> <<"number">>
      [] vn = "number | number : number" -> <<"number", "number : number">>
      [] vn = "point" -> <<"point">>
      [] vn = "point : point" -> <<"point : point">>
      [] vn = "point : simpletext" -> <<"point : simpletext">>
      [] vn = "real" -> <<"real">>
      [] vn = "simpletext" -> <<"simpletext">>
      [] vn = "simpletext : number" -> <<"simpletext : number">>
      [] vn = "stone" -> <<"stone">>
      [] vn = "text" -> <<"text">>
      [] vn = "unknown" -> <<"unknown">>

SplitComposed(vn_part) ==
    CASE vn_part = "color" -> <<"color">>
      [] vn_part = "double" -> <<"double">>
      [] vn_part = "move" -> <<"move">>
      [] vn_part = "none" -> <<"none">>
      [] vn_part = "number" -> <<"number">>
      [] vn_part = "number : number" -> <<"number", "number">>
      [] vn_part = "number : simpletext" -> <<"number", "simpletext">>
      [] vn_part = "point" -> <<"point">>
      [] vn_part = "point : point" -> <<"point", "point">>
      [] vn_part = "point : simpletext" -> <<"point", "simpletext">>
      [] vn_part = "real" -> <<"real">>
      [] vn_part = "simpletext" -> <<"simpletext">>
      [] vn_part = "simpletext : number" -> <<"simpletext", "number">>
      [] vn_part = "stone" -> <<"stone">>
      [] vn_part = "text" -> <<"text">>
      [] vn_part = "unknown" -> <<"unknown">>

(***************************************************************************)
(* strings.Split(value, ":") on a value text.                              *)
(***************************************************************************)
RECURSIVE SplitValue(_)
SplitValue(value) ==
    IF \A i \in 1..Len(value) : value[i] # ":"
    THEN <<value>>
    ELSE LET i == CHOOSE k \in 1..Len(value) :
                      /\ value[k] = ":"
                      /\ \A j \in 1..(k - 1) : value[j] # ":"
         IN  <<SubSeq(value, 1, i - 1)>> \o SplitValue(SubSeq(value, i + 1, Len(value)))

AllDigits(s) == Len(s) >= 1 /\ \A i \in 1..Len(s) : s[i] \in Digits

StripSign(value) ==
    IF Len(value) >= 1 /\ value[1] \in {"+", "-"} THEN Tail(value) ELSE value

\* regexp.MatchString(`^[\+-]?\d+$`, value)
MatchNumber(value) == AllDigits(StripSign(value))

\* regexp.MatchString(`^[\+-]?\d+(.\d+)?$`, value): the dot is not escaped and
\* matches any character but a line feed
MatchReal(value) ==
    LET s == StripSign(value)
    IN  \/ AllDigits(s)
        \/ \E i \in 1..(Len(s) - 2) :
              /\ AllDigits(SubSeq(s, 1, i))
              /\ s[i + 1] # "\n"
              /\ AllDigits(SubSeq(s, i + 2, Len(s)))

ErrDeferred == "validation deferred: must be validated in the context of the full SGF structure"

validatePropertyValuePart(validator, value) ==
    CASE validator = "unknown" -> ErrNil
      [] validator = "none" ->
            IF value = <<>> THEN ErrNil
            ELSE "None type Property Values must be empty"
      [] validator = "double" ->
            IF value \in {<<"1">>, <<"2">>} THEN ErrNil
            ELSE "Double type Property Values must be either '1' or '2'"
      [] validator = "color" ->
            IF value \in {<<"B">>, <<"W">>} THEN ErrNil
            ELSE "Color type Property Values must be either 'B' or 'W'"
      [] validator = "number" ->
            IF MatchNumber(value) THEN ErrNil
            ELSE "Number type Property Value expected positive or negative integer"
      [] validator = "real" ->
            IF MatchReal(value) THEN ErrNil
            ELSE "Real type Property Value expected positive or negative real number"
      [] validator \in {"text", "simpletext"} -> ErrNil
      [] validator \in {"move", "stone", "point"} -> ErrDeferred
      [] OTHER -> "No validation implemented for type " \o validator
                      \o " and value " \o Str(value)

\* the first non-nil error of a list of errors, nil when there is none
RECURSIVE FirstError(_)
FirstError(errors) ==
    IF errors = <<>> THEN ErrNil
    ELSE IF Head(errors) # ErrNil THEN Head(errors)
    ELSE FirstError(Tail(errors))

RECURSIVE FirstPartError(_, _)
FirstPartError(composed_parts, value_parts) ==
    IF value_parts = <<>> THEN ErrNil
    ELSE LET err == validatePropertyValuePart(Head(composed_parts), Head(value_parts))
         IN  IF err # ErrNil THEN err
             ELSE FirstPartError(Tail(composed_parts), Tail(value_parts))

\* one alternative: the composition check, then the parts in order
CompositionError(composed_parts, value_parts) ==
    IF Len(composed_parts) # Len(value_parts)
    THEN "not enough parts in composition"
    ELSE FirstPartError(composed_parts, value_parts)

\* the body of the loop over vn_parts: the error appended for one alternative
AlternativeError(vn_part, value) ==
    CompositionError(SplitComposed(vn_part), SplitValue(value))

AlternativeErrors(vn_parts, value) ==
    [i \in 1..Len(vn_parts) |-> AlternativeError(vn_parts[i], value)]

\* ErrorOfAll returning first_error when some entry is an error
ErrorOfAny(errors) == FirstError(errors)

\* the end of validatePropertyValue: first_error when every entry is an error
ErrorOfAll(errors) ==
    IF Cardinality({i \in 1..Len(errors) : errors[i] # ErrNil}) = Len(errors)
    THEN FirstError(errors)
    ELSE ErrNil

validatePropertyValue(pv) ==
    ErrorOfAll(AlternativeErrors(SplitAlternatives(pv.validatorName), pv.Value))

\* strings.HasPrefix(err.Error(), "validation deferred:"); ErrDeferred is the
\* only message of the package with that prefix
HasPrefixDeferred(err) == err = ErrDeferred

(***************************************************************************)
(* sgf.go: PropertyValue and Property.  The operations on a Property       *)
(* return the Property as the call leaves it and the error returned.       *)
(***************************************************************************)
NewPropertyValue(v) == [Value |-> v, validatorName |-> "unknown"]

NewEmptyPropertyValue == [Value |-> <<>>, validatorName |-> "unknown"]

SetValue(pv, v) == [pv EXCEPT !.Value = v]

\* the body of the loop over p.Values; acc holds p.Validated and errors
ValueStep(acc, err) ==
    IF err # ErrNil
    THEN IF HasPrefixDeferred(err)
         THEN [Validated |-> "ValidationDeferred", errors |-> Append(acc.errors, ErrNil)]
         ELSE [acc EXCEPT !.errors = Append(@, err)]
    ELSE [acc EXCEPT !.errors = Append(@, ErrNil)]

RECURSIVE ValuesLoop(_, _)
ValuesLoop(values, acc) ==
    IF values = <<>> THEN acc
    ELSE ValuesLoop(Tail(values), ValueStep(acc, validatePropertyValue(Head(values))))

\* ValuesResult where a deferred value hides the first error
ValuesResultDeferredFirst(p, validated, first_error) ==
    IF first_error # ErrNil /\ validated # "ValidationDeferred"
    THEN [p |-> [p EXCEPT !.Validated = "Invalid"], err |-> first_error]
    ELSE [p |-> [p EXCEPT !.Validated =
                     IF validated = "NotValidated" THEN "Valid" ELSE validated],
          err |-> ErrNil]

\* the end of validatePropertyValues, from first_error on
ValuesResult(p, validated, first_error) ==
    IF first_error # ErrNil
    THEN [p |-> [p EXCEPT !.Validated = "Invalid"], err |-> first_error]
    ELSE [p |-> [p EXCEPT !.Validated =
                     IF validated = "NotValidated" THEN "Valid" ELSE validated],
          err |-> ErrNil]

\* validatePropertyValues without the test of the number of values
validatePropertyValuesAnyNumber(p) ==
    With(ValuesLoop(p.Values, [Validated |-> "NotValidated", errors |-> <<>>]),
         LAMBDA acc : ValuesResult(p, acc.Validated, FirstError(acc.errors)))

validatePropertyValues(p) ==
    IF p.listiness = "propertyNotList" /\ Len(p.Values) > 1
    THEN [p |-> [p EXCEPT !.Validated = "Invalid"],
          err |-> "Property " \o Str(p.Identity) \o " can only have one value"]
    ELSE With(ValuesLoop(p.Values, [Validated |-> "NotValidated", errors |-> <<>>]),
              LAMBDA acc : ValuesResult(p, acc.Validated, FirstError(acc.errors)))

\* typeInfo, ok := propertyTypeMap[identity]: <<typeInfo>>, or << >> when not ok
LookupType(identity) ==
    With(propertyTypeMap,
         LAMBDA m : IF identity \in DOMAIN m THEN <<m[identity]>> ELSE <<>>)

NewProperty(identity, values) ==
    With(LookupType(identity), LAMBDA found :
        validatePropertyValues(
            IF found # <<>>
            THEN [Type |-> found[1].t,
                  Identity |-> identity,
                  Values |-> [i \in 1..Len(values) |->
                                 [values[i] EXCEPT !.validatorName = found[1].vn]],
                  Description |-> found[1].d,
                  Validated |-> "NotValidated",
                  validatorName |-> found[1].vn,
                  listiness |-> found[1].l]
            ELSE [Type |-> "PropertyTypeUnknown",
                  Identity |-> identity,
                  Values |-> values,
                  Description |-> "unknown",
                  Validated |-> "NotValidated",
                  validatorName |-> "unknown",
                  listiness |-> "propertyUnknownList"]))

\* AddValue leaving the property as it was when the validation fails
AddValueOrNothing(p, pv) ==
    With(validatePropertyValues(
             [p EXCEPT !.Values =
                 Append(@, IF pv.validatorName = "unknown"
                           THEN [pv EXCEPT !.validatorName = p.validatorName]
                           ELSE pv)]),
         LAMBDA r : IF r.err # ErrNil THEN [p |-> p, err |-> r.err] ELSE r)

AddValue(p, pv) ==
    validatePropertyValues(
        [p EXCEPT !.Values =
            Append(@, IF pv.validatorName = "unknown"
                      THEN [pv EXCEPT !.validatorName = p.validatorName]
                      ELSE pv)])

RECURSIVE Concat(_)
Concat(seqs) == IF seqs = <<>> THEN <<>> ELSE Head(seqs) \o Concat(Tail(seqs))

PropertyValueString(v) == <<"[">> \o v.Value \o <<"]">>

PropertyString(p) ==
    p.Identity \o Concat([i \in 1..Len(p.Values) |-> PropertyValueString(p.Values[i])])

NodeString(n) ==
    <<";">> \o Concat([i \in 1..Len(n.Properties) |-> PropertyString(n.Properties[i])])

RECURSIVE GameTreeString(_)
GameTreeString(gt) ==
    <<"(">>
    \o Concat([i \in 1..Len(gt.Sequence) |-> NodeString(gt.Sequence[i])])
    \o Concat([i \in 1..Len(gt.Subtrees) |-> GameTreeString(gt.Subtrees[i])])
    \o <<")">>

NewGameTree == [Sequence |-> <<>>, Subtrees |-> <<>>]

AddSubtree(gt, st) == [gt EXCEPT !.Subtrees = Append(gt.Subtrees, st)]

NewNode == [Properties |-> <<>>]

\* AddProperty without the search for the identity
AddPropertyUnchecked(n, p) ==
    [n |-> [n EXCEPT !.Properties = Append(n.Properties, p)], err |-> ErrNil]

AddProperty(n, p) ==
    IF \E i \in 1..Len(n.Properties) : p.Identity = n.Properties[i].Identity
    THEN [n |-> n, err |-> "sgf: only one of each property is allowed per node"]
    ELSE [n |-> [n EXCEPT !.Properties = Append(n.Properties, p)], err |-> ErrNil]

(***************************************************************************)
(* The lexer: cursor operations.  A lexer value lx is the record of the    *)
(* fields state, pos, start, width and treeDepth; positions count the      *)
(* bytes consumed, as in the source, so input[lx.pos + 1] is the next byte.*)
(***************************************************************************)
next(lx) ==
    IF lx.pos >= Len(input)
    THEN [r |-> eof, l |-> [lx EXCEPT !.width = 0]]
    ELSE [r |-> input[lx.pos + 1],
          l |-> [lx EXCEPT !.width = 1, !.pos = lx.pos + 1]]

backup(lx) == [lx EXCEPT !.pos = lx.pos - lx.width]

peek(lx) == LET n == next(lx) IN [r |-> n.r, l |-> backup(n.l)]

ignore(lx) == [lx EXCEPT !.start = lx.pos]

\* the item emit sends: item{t, l.start, l.input[l.start:l.pos]}
item(t, lx) ==
    [typ |-> t, pos |-> lx.start, val |-> SubSeq(input, lx.start + 1, lx.pos), msg |-> ""]

\* the item errorf and emitWarning send; msg stands for val, the message's bytes
message(t, lx, text) == [typ |-> t, pos |-> lx.start, val |-> <<>>, msg |-> text]

\* what emit does once its send has been received
emitted(lx) == [lx EXCEPT !.start = lx.pos]

RECURSIVE consumeWhitespace(_)
consumeWhitespace(lx) ==
    With(next(lx), LAMBDA n :
        IF n.r = " " \/ n.r = "\n" \/ n.r = "\t"
        THEN consumeWhitespace(ignore(n.l))
        ELSE backup(n.l))

\* the loop of lexBytes: the state function it returns, or "break"
RECURSIVE lexBytesLoop(_)
lexBytesLoop(lx) ==
    With(next(lx), LAMBDA n :
        IF n.r = "(" THEN [ret |-> "lexOpenParen", l |-> n.l]
        ELSE IF n.r = ")" THEN [ret |-> "lexCloseParen", l |-> n.l]
        ELSE IF n.r = eof THEN [ret |-> "break", l |-> n.l]
        ELSE lexBytesLoop(ignore(n.l)))

\* the loop of lexTree: the state function it returns, or "errorf"
RECURSIVE lexTreeLoop(_)
lexTreeLoop(lx) ==
    With(next(lx), LAMBDA n :
        IF n.r = ";" THEN [ret |-> "lexSemiColon", l |-> n.l]
        ELSE IF n.r = "(" THEN [ret |-> "lexOpenParen", l |-> n.l]
        ELSE IF n.r = ")" THEN [ret |-> "lexCloseParen", l |-> n.l]
        ELSE IF n.r = eof THEN [ret |-> "errorf", l |-> n.l]
        ELSE lexTreeLoop(ignore(n.l)))

\* IdentLoop taking every byte but '[', ';' and the end of input into the run
RECURSIVE IdentLoopAnyByte(_)
IdentLoopAnyByte(lx) ==
    With(next(lx), LAMBDA n :
        IF n.r = eof
        THEN [ret |-> "errorf", l |-> n.l,
              msg |-> "lex: unexpected EOF; expected PropertyIdent"]
        ELSE IF n.r = ";"
        THEN IF n.l.pos - n.l.start = 1
             THEN [ret |-> "lexSemiColon", l |-> n.l, msg |-> ""]
             ELSE [ret |-> "errorf", l |-> n.l,
                   msg |-> "lex: unexpected ';'; expected PropertyIdent"]
        ELSE IF n.r = "["
        THEN [ret |-> "break", l |-> backup(n.l), msg |-> ""]
        ELSE IdentLoopAnyByte(n.l))

\* IdentLoop of lexProperty: "break", "lexSemiColon" or "errorf" with its message
RECURSIVE IdentLoop(_)
IdentLoop(lx) ==
    With(next(lx), LAMBDA n :
        IF n.r = eof
        THEN [ret |-> "errorf", l |-> n.l,
              msg |-> "lex: unexpected EOF; expected PropertyIdent"]
        ELSE IF n.r = ";"
        THEN IF n.l.pos - n.l.start = 1
             THEN [ret |-> "lexSemiColon", l |-> n.l, msg |-> ""]
             ELSE [ret |-> "errorf", l |-> n.l,
                   msg |-> "lex: unexpected ';'; expected PropertyIdent"]
        ELSE IF n.r = "["
        THEN [ret |-> "break", l |-> backup(n.l), msg |-> ""]
        ELSE IF n.r \notin UpperCase
        THEN [ret |-> "errorf", l |-> n.l,
              msg |-> "lex: PropertyIdent must be upper-case letters"]
        ELSE IdentLoop(n.l))

\* ValueLoop ending the value at the first ']', escaped or not
RECURSIVE ValueLoopNoEscape(_)
ValueLoopNoEscape(lx) ==
    With(next(lx), LAMBDA n :
        IF n.r = eof
        THEN [ret |-> "errorf", l |-> n.l]
        ELSE IF n.r = "]"
        THEN [ret |-> "break", l |-> backup(n.l)]
        ELSE ValueLoopNoEscape(n.l))

\* ValueLoop of lexProperty: "break" or "errorf"
RECURSIVE ValueLoop(_)
ValueLoop(lx) ==
    With(next(lx), LAMBDA n :
        IF n.r = eof
        THEN [ret |-> "errorf", l |-> n.l]
        ELSE IF n.r = "\\"
        THEN ValueLoop(next(n.l).l)
        ELSE IF n.r = "]"
        THEN [ret |-> "break", l |-> backup(n.l)]
        ELSE ValueLoop(n.l))

(***************************************************************************)
(* The lexer goroutine.  lpc = "run" is the head of run's loop; any other  *)
(* value names the send the goroutine has reached.  A send stays in items  *)
(* until the parser receives it, and the goroutine goes on only then.      *)
(***************************************************************************)
Running(fn) == lpc = "run" /\ l.state = fn

\* a send that returns before the item is received, as on a buffered channel
SentUnreceived(at) == lpc = at

Sent(at) == lpc = at /\ items = <<>>

Send(it, at) == items' = <<it>> /\ lpc' = at

LexerFrame == UNCHANGED <<input, closed, parser, received, prop, perr>>

lexBytes ==
    \/ /\ Running("lexBytes")
       /\ LET r == lexBytesLoop(l)
          IN  IF r.ret = "break"
              THEN l' = r.l /\ Send(item("itemEOF", r.l), "lexBytes_emit")
              ELSE l' = [r.l EXCEPT !.state = r.ret] /\ UNCHANGED <<lpc, items>>
       /\ LexerFrame
    \/ /\ Sent("lexBytes_emit")
       /\ l' = [emitted(l) EXCEPT !.state = "nil"]
       /\ lpc' = "run"
       /\ UNCHANGED items
       /\ LexerFrame

\* lexOpenParen without l.treeDepth++
lexOpenParenFlat ==
    \/ /\ Running("lexOpenParen")
       /\ Send(item("itemOpenParen", l), "lexOpenParen_emit")
       /\ UNCHANGED l
       /\ LexerFrame
    \/ /\ Sent("lexOpenParen_emit")
       /\ l' = [emitted(l) EXCEPT !.state = "lexTree"]
       /\ lpc' = "run"
       /\ UNCHANGED items
       /\ LexerFrame

lexOpenParen ==
    \/ /\ Running("lexOpenParen")
       /\ Send(item("itemOpenParen", l), "lexOpenParen_emit")
       /\ UNCHANGED l
       /\ LexerFrame
    \/ /\ Sent("lexOpenParen_emit")
       /\ l' = [emitted(l) EXCEPT !.treeDepth = l.treeDepth + 1, !.state = "lexTree"]
       /\ lpc' = "run"
       /\ UNCHANGED items
       /\ LexerFrame

\* errorf returning lexBytes, where the source returns nil
errorfGoesOn ==
    /\ Sent("errorf")
    /\ l' = [l EXCEPT !.state = "lexBytes"]
    /\ lpc' = "run"
    /\ UNCHANGED items
    /\ LexerFrame

\* errorf once its send has been received: the state function returns nil
errorf ==
    /\ Sent("errorf")
    /\ l' = [l EXCEPT !.state = "nil"]
    /\ lpc' = "run"
    /\ UNCHANGED items
    /\ LexerFrame

\* lexCloseParen emitting the token whatever the depth is
lexCloseParenUnchecked ==
    \/ /\ Running("lexCloseParen")
       /\ LET lx == [l EXCEPT !.treeDepth = l.treeDepth - 1]
          IN  /\ l' = lx
              /\ Send(item("itemCloseParen", lx), "lexCloseParen_emit")
       /\ LexerFrame
    \/ /\ Sent("lexCloseParen_emit")
       /\ l' = [emitted(l) EXCEPT
                   !.state = IF l.treeDepth > 0 THEN "lexTree" ELSE "lexBytes"]
       /\ lpc' = "run"
       /\ UNCHANGED items
       /\ LexerFrame

lexCloseParen ==
    \/ /\ Running("lexCloseParen")
       /\ LET lx == [l EXCEPT !.treeDepth = l.treeDepth - 1]
          IN  /\ l' = lx
              /\ IF lx.treeDepth < 0
                 THEN Send(message("itemError", lx, "lex: too many right parentheses"),
                           "errorf")
                 ELSE Send(item("itemCloseParen", lx), "lexCloseParen_emit")
       /\ LexerFrame
    \/ /\ Sent("lexCloseParen_emit")
       /\ l' = [emitted(l) EXCEPT
                   !.state = IF l.treeDepth > 0 THEN "lexTree" ELSE "lexBytes"]
       /\ lpc' = "run"
       /\ UNCHANGED items
       /\ LexerFrame

\* lexTree taking the end of input inside a tree for the end of the buffer
lexTreeEmitsEOF ==
    /\ Running("lexTree")
    /\ LET r == lexTreeLoop(l)
       IN  IF r.ret = "errorf"
           THEN /\ l' = r.l
                /\ Send(item("itemEOF", r.l), "errorf")
           ELSE l' = [r.l EXCEPT !.state = r.ret] /\ UNCHANGED <<lpc, items>>
    /\ LexerFrame

lexTree ==
    /\ Running("lexTree")
    /\ LET r == lexTreeLoop(l)
       IN  IF r.ret = "errorf"
           THEN /\ l' = r.l
                /\ Send(message("itemError", r.l,
                           "lex: unexpected EOF; expected GameTree contents or ')'"),
                        "errorf")
           ELSE l' = [r.l EXCEPT !.state = r.ret] /\ UNCHANGED <<lpc, items>>
    /\ LexerFrame

lexSemiColon ==
    \/ /\ Running("lexSemiColon")
       /\ Send(item("itemSemiColon", l), "lexSemiColon_emit")
       /\ UNCHANGED l
       /\ LexerFrame
    \/ /\ Sent("lexSemiColon_emit")
       /\ l' = [emitted(l) EXCEPT !.state = "lexProperty"]
       /\ lpc' = "run"
       /\ UNCHANGED items
       /\ LexerFrame

\* lexProperty without the send of itemOpenBracket
lexPropertyNoOpenBracket ==
    \/ /\ Running("lexProperty")
       /\ LET r == IdentLoop(consumeWhitespace(l))
          IN  IF r.ret = "errorf"
              THEN l' = r.l /\ Send(message("itemError", r.l, r.msg), "errorf")
              ELSE IF r.ret = "lexSemiColon"
              THEN l' = [r.l EXCEPT !.state = "lexSemiColon"] /\ UNCHANGED <<lpc, items>>
              ELSE IF r.l.pos - r.l.start > 2
              THEN /\ l' = r.l
                   /\ Send(message("itemWarning", r.l,
                              "lex: Found PropertyIdent wider than 2 characters"),
                           "lexProperty_emitWarning")
              ELSE l' = r.l /\ Send(item("itemPropertyIdent", r.l), "lexProperty_emitIdent")
       /\ LexerFrame
    \/ /\ Sent("lexProperty_emitWarning")
       /\ Send(item("itemPropertyIdent", l), "lexProperty_emitIdent")
       /\ UNCHANGED l
       /\ LexerFrame
    \/ /\ Sent("lexProperty_emitIdent")
       /\ LET lx == next(emitted(l)).l
          IN  l' = lx /\ lpc' = "lexProperty_emitOpenBracket" /\ UNCHANGED items
       /\ LexerFrame
    \/ /\ Sent("lexProperty_emitOpenBracket")
       /\ LET r == ValueLoop(emitted(l))
          IN  /\ l' = r.l
              /\ IF r.ret = "errorf"
                 THEN Send(message("itemError", r.l,
                              "lex: unexpected EOF; expected PropertyValue"),
                           "errorf")
                 ELSE Send(item("itemPropertyValue", r.l), "lexProperty_emitValue")
       /\ LexerFrame
    \/ /\ Sent("lexProperty_emitValue")
       /\ LET lx == next(emitted(l)).l
          IN  l' = lx /\ Send(item("itemCloseBracket", lx), "lexProperty_emitCloseBracket")
       /\ LexerFrame
    \/ /\ Sent("lexProperty_emitCloseBracket")
       /\ LET lx == consumeWhitespace(emitted(l))
              p == peek(lx)
          IN  l' = [p.l EXCEPT !.state =
                       IF p.r \in {";", "(", ")", eof} THEN "lexTree" ELSE "lexProperty"]
       /\ lpc' = "run"
       /\ UNCHANGED items
       /\ LexerFrame

lexProperty ==
    \/ /\ Running("lexProperty")
       /\ LET r == IdentLoop(consumeWhitespace(l))
          IN  IF r.ret = "errorf"
              THEN l' = r.l /\ Send(message("itemError", r.l, r.msg), "errorf")
              ELSE IF r.ret = "lexSemiColon"
              THEN l' = [r.l EXCEPT !.state = "lexSemiColon"] /\ UNCHANGED <<lpc, items>>
              ELSE IF r.l.pos - r.l.start > 2
              THEN /\ l' = r.l
                   /\ Send(message("itemWarning", r.l,
                              "lex: Found PropertyIdent wider than 2 characters"),
                           "lexProperty_emitWarning")
              ELSE l' = r.l /\ Send(item("itemPropertyIdent", r.l), "lexProperty_emitIdent")
       /\ LexerFrame
    \/ /\ Sent("lexProperty_emitWarning")
       /\ Send(item("itemPropertyIdent", l), "lexProperty_emitIdent")
       /\ UNCHANGED l
       /\ LexerFrame
    \/ /\ Sent("lexProperty_emitIdent")
       /\ LET lx == next(emitted(l)).l
          IN  l' = lx /\ Send(item("itemOpenBracket", lx), "lexProperty_emitOpenBracket")
       /\ LexerFrame
    \/ /\ Sent("lexProperty_emitOpenBracket")
       /\ LET r == ValueLoop(emitted(l))
          IN  /\ l' = r.l
              /\ IF r.ret = "errorf"
                 THEN Send(message("itemError", r.l,
                              "lex: unexpected EOF; expected PropertyValue"),
                           "errorf")
                 ELSE Send(item("itemPropertyValue", r.l), "lexProperty_emitValue")
       /\ LexerFrame
    \/ /\ Sent("lexProperty_emitValue")
       /\ LET lx == next(emitted(l)).l
          IN  l' = lx /\ Send(item("itemCloseBracket", lx), "lexProperty_emitCloseBracket")
       /\ LexerFrame
    \/ /\ Sent("lexProperty_emitCloseBracket")
       /\ LET lx == consumeWhitespace(emitted(l))
              p == peek(lx)
          IN  l' = [p.l EXCEPT !.state =
                       IF p.r \in {";", "(", ")", eof} THEN "lexTree" ELSE "lexProperty"]
       /\ lpc' = "run"
       /\ UNCHANGED items
       /\ LexerFrame

\* run returning without close(l.items)
runWithoutClose ==
    /\ Running("nil")
    /\ lpc' = "done"
    /\ UNCHANGED <<input, l, items, closed, parser, received, prop, perr>>

\* run, once the state is nil: close(l.items)
run ==
    /\ Running("nil")
    /\ closed' = TRUE
    /\ lpc' = "done"
    /\ UNCHANGED <<input, l, items, parser, received, prop, perr>>

(***************************************************************************)
(* The parser.  The variable parser holds what Parse returns (collection,  *)
(* warnings, err), the frames of the parseGameTree calls in progress       *)
(* (stack: the gt of each and the sequence of its parseSequence), the      *)
(* locals of the parseNode call in progress, and pc: the function whose    *)
(* receive from l.items the parser waits in, or "done" once Parse has      *)
(* returned, or "panic".                                                   *)
(***************************************************************************)
\* item.String
ItemString(i) ==
    IF i.typ = "itemEOF" THEN "EOF"
    ELSE IF i.typ \in {"itemError", "itemWarning"} THEN i.msg
    ELSE IF i.typ = "itemOpenParen" THEN "("
    ELSE IF i.typ = "itemCloseParen" THEN ")"
    ELSE IF i.typ = "itemOpenBracket" THEN "["
    ELSE IF i.typ = "itemCloseBracket" THEN "]"
    ELSE IF i.typ = "itemSemiColon" THEN ";"
    ELSE IF Len(i.val) > 10 THEN "\"" \o Str(SubSeq(i.val, 1, 10)) \o "\"..."
    ELSE "\"" \o Str(i.val) \o "\""

ErrClosed == "parse: lexer channel closed unexpectedly"

\* a return with err set, through every caller up to Parse
Fail(ps, e) ==
    [ps EXCEPT !.pc = "done", !.err = e, !.stack = <<>>, !.n = NewNode,
               !.currentProperty = <<>>, !.currentPropertyValue = <<>>]

Top(ps) == ps.stack[Len(ps.stack)]

\* the call of parseGameTree up to the first receive of its parseSequence
callParseGameTree(ps) ==
    [ps EXCEPT !.stack = Append(@, [gt |-> NewGameTree, sequence |-> <<>>]),
               !.pc = "parseSequence"]

\* the call of parseNode up to its first receive
callParseNode(ps) ==
    [ps EXCEPT !.n = NewNode, !.currentProperty = <<>>,
               !.currentPropertyValue = <<>>, !.pc = "parseNode"]

\* parseGameTree returns gt: to parseCollection, which appends it, or to the
\* parseGameTree above, which adds it as a subtree and receives the next item
returnGameTree(ps) ==
    LET gt == Top(ps).gt
        d == Len(ps.stack)
    IN  IF d = 1
        THEN [ps EXCEPT !.stack = <<>>,
                        !.collection = Append(@, gt),
                        !.pc = "parseCollection"]
        ELSE [ps EXCEPT !.stack = [SubSeq(@, 1, d - 1) EXCEPT
                                      ![d - 1].gt = AddSubtree(@, gt)],
                        !.pc = "parseGameTree"]

\* the switch of parseGameTree's loop on lastItem
parseGameTreeLoop(ps, lastItem) ==
    IF lastItem.typ = "itemCloseParen" THEN returnGameTree(ps)
    ELSE IF lastItem.typ = "itemOpenParen" THEN callParseGameTree(ps)
    ELSE IF lastItem.typ = "itemError" THEN Fail(ps, lastItem.msg)
    ELSE Fail(ps, "parse: unexpected item: " \o ItemString(lastItem))

\* parseSequenceLoop without the test of len(sequence)
parseSequenceLoopAnyLength(ps, lastItem) ==
    IF lastItem.typ = "itemSemiColon" THEN callParseNode(ps)
    ELSE IF lastItem.typ = "itemError" THEN Fail(ps, lastItem.msg)
    ELSE parseGameTreeLoop(
             [ps EXCEPT !.stack[Len(ps.stack)].gt.Sequence = Top(ps).sequence],
             lastItem)

\* the switch of parseSequence's loop on lastItem, and the return to parseGameTree
parseSequenceLoop(ps, lastItem) ==
    IF lastItem.typ = "itemSemiColon" THEN callParseNode(ps)
    ELSE IF lastItem.typ = "itemError" THEN Fail(ps, lastItem.msg)
    ELSE IF Len(Top(ps).sequence) = 0
    THEN Fail(ps, "parse: the GameTree sequence must have at least one node in it")
    ELSE parseGameTreeLoop(
             [ps EXCEPT !.stack[Len(ps.stack)].gt.Sequence = Top(ps).sequence],
             lastItem)

\* parseNode returns n and lastItem to parseSequence, which appends the node
returnNode(ps, n, lastItem) ==
    parseSequenceLoop(
        [ps EXCEPT !.stack[Len(ps.stack)].sequence = Append(@, n),
                   !.n = NewNode, !.currentProperty = <<>>,
                   !.currentPropertyValue = <<>>],
        lastItem)

\* n.AddProperty(currentProperty) when currentProperty is not nil
storeProperty(ps) ==
    IF ps.currentProperty # <<>>
    THEN AddProperty(ps.n, ps.currentProperty[1])
    ELSE [n |-> ps.n, err |-> ErrNil]

\* addedValue without the test of the error AddValue returns
addedValueUnchecked(ps, r) ==
    [ps EXCEPT !.currentProperty = <<r.p>>, !.currentPropertyValue = <<>>]

\* case itemCloseBracket, after the call r of currentProperty.AddValue
addedValue(ps, r) ==
    IF r.err # ErrNil THEN Fail(ps, r.err)
    ELSE [ps EXCEPT !.currentProperty = <<r.p>>, !.currentPropertyValue = <<>>]

\* the switch of parseNode's loop on lastItem
parseNodeSwitch(ps, lastItem) ==
    IF lastItem.typ \in {"itemSemiColon", "itemCloseParen", "itemOpenParen"}
    THEN With(storeProperty(ps), LAMBDA r :
             IF r.err # ErrNil THEN Fail(ps, r.err)
             ELSE returnNode(ps, r.n, lastItem))
    ELSE IF lastItem.typ = "itemPropertyIdent"
    THEN With(storeProperty(ps), LAMBDA r :
             IF r.err # ErrNil THEN Fail(ps, r.err)
             ELSE With(NewProperty(lastItem.val, <<>>), LAMBDA np :
                      IF np.err # ErrNil THEN Fail(ps, np.err)
                      ELSE [ps EXCEPT !.n = r.n, !.currentProperty = <<np.p>>]))
    ELSE IF lastItem.typ = "itemOpenBracket"
    THEN [ps EXCEPT !.currentPropertyValue = <<NewEmptyPropertyValue>>]
    ELSE IF lastItem.typ = "itemPropertyValue"
    THEN IF ps.currentPropertyValue # <<>>
         THEN [ps EXCEPT !.currentPropertyValue = <<SetValue(@[1], lastItem.val)>>]
         ELSE Fail(ps, "parse: got a property value without an opening [")
    ELSE IF lastItem.typ = "itemCloseBracket"
    THEN IF ps.currentPropertyValue # <<>>
         THEN IF ps.currentProperty = <<>>
              THEN [ps EXCEPT !.pc = "panic"]
              ELSE addedValue(ps, AddValue(ps.currentProperty[1],
                                           ps.currentPropertyValue[1]))
         ELSE Fail(ps, "parse: got a closing ] without an opening [")
    ELSE IF lastItem.typ = "itemError"
    THEN Fail(ps, lastItem.msg)
    ELSE Fail(ps, "parse: unexpected item: " \o ItemString(lastItem))

\* the switch of parseCollection's loop on lastItem
parseCollectionSwitch(ps, lastItem) ==
    IF lastItem.typ = "itemOpenParen" THEN callParseGameTree(ps)
    ELSE IF lastItem.typ = "itemEOF" THEN [ps EXCEPT !.pc = "done"]
    ELSE IF lastItem.typ = "itemError" THEN Fail(ps, lastItem.msg)
    ELSE Fail(ps, "parse: only GameTrees are allowed at the top level")

\* a receive that does not wait for the lexer
CanReceiveAtOnce == TRUE

\* a receive from l.items: it takes the waiting send and goes on as handled,
\* or finds the channel closed
CanReceive == items # <<>> \/ closed

Receive(handled) ==
    IF items # <<>>
    THEN /\ parser' = handled
         /\ items' = <<>>
         /\ received' = Append(received, items[1])
    ELSE /\ parser' = Fail(parser, ErrClosed)
         /\ UNCHANGED <<items, received>>

ParserFrame == UNCHANGED <<input, l, lpc, closed, prop, perr>>

parseCollection ==
    /\ parser.pc = "parseCollection"
    /\ CanReceive
    /\ Receive(parseCollectionSwitch(parser, items[1]))
    /\ ParserFrame

parseGameTree ==
    /\ parser.pc = "parseGameTree"
    /\ CanReceive
    /\ Receive(parseGameTreeLoop(parser, items[1]))
    /\ ParserFrame

parseSequence ==
    /\ parser.pc = "parseSequence"
    /\ CanReceive
    /\ Receive(parseSequenceLoop(parser, items[1]))
    /\ ParserFrame

parseNode ==
    /\ parser.pc = "parseNode"
    /\ CanReceive
    /\ Receive(parseNodeSwitch(parser, items[1]))
    /\ ParserFrame

(***************************************************************************)
(* Parse: the search for the CA property and the warnings it appends.      *)
(***************************************************************************)
\* bytes.Index(data, key): the offset of the first occurrence, or -1
Index(data, key) ==
    LET hits == {i \in 0..(Len(data) - Len(key)) :
                    SubSeq(data, i + 1, i + Len(key)) = key}
    IN  IF hits = {} THEN -1 ELSE CHOOSE i \in hits : \A j \in hits : i <= j

LowerSeq ==
    <<"a", "b", "c", "d", "e", "f", "g", "h", "i", "j", "k", "l", "m",
      "n", "o", "p", "q", "r", "s", "t", "u", "v", "w", "x", "y", "z">>

UpperSeq ==
    <<"A", "B", "C", "D", "E", "F", "G", "H", "I", "J", "K", "L", "M",
      "N", "O", "P", "Q", "R", "S", "T", "U", "V", "W", "X", "Y", "Z">>

Fold(c) ==
    IF \E k \in 1..Len(LowerSeq) : LowerSeq[k] = c
    THEN UpperSeq[CHOOSE k \in 1..Len(LowerSeq) : LowerSeq[k] = c]
    ELSE c

\* strings.EqualFold on the bytes of the model
EqualFold(s, t) ==
    /\ Len(s) = Len(t)
    /\ \A i \in 1..Len(s) : Fold(s[i]) = Fold(t[i])

encodingName(data) ==
    LET key == <<"C", "A", "[">>
        key_i == Index(data, key)
        start_i == key_i + Len(key)
        rest == SubSeq(data, start_i + 1, Len(data))
        close_i == Index(rest, <<"]">>)
    IN  IF key_i # -1 /\ close_i # -1 THEN SubSeq(rest, 1, close_i) ELSE <<>>

ParseWarnings(data) ==
    LET name == encodingName(data)
    IN  IF name = <<>>
        THEN <<"Did not find a CA property. Assuming the UTF-8 encoding">>
        ELSE IF ~EqualFold(name, <<"U", "T", "F", "-", "8">>)
        THEN <<"The encoding specified in the CA property (" \o Str(name)
               \o ") is not currently supported. Going to try to use UTF-8 instead">>
        ELSE <<>>

\* Parse up to the call of parseCollection: the lexer made by lex, its goroutine
\* started, and the parser at the first receive
lex == [state |-> "lexBytes", pos |-> 0, start |-> 0, width |-> 0, treeDepth |-> 0]

Parse(data) ==
    [pc |-> "parseCollection",
     collection |-> <<>>,
     err |-> ErrNil,
     warnings |-> ParseWarnings(data),
     stack |-> <<>>,
     n |-> NewNode,
     currentProperty |-> <<>>,
     currentPropertyValue |-> <<>>]

(***************************************************************************)
(* The buffers Parse is run on: every buffer of at most MaxLen bytes over  *)
(* Alphabet, the buffers of the package's lexer test, further buffers, and *)
(* the texts GameTree.String gives for a family of well-formed trees.      *)
(***************************************************************************)
Alphabet == {"(", ")", ";", "[", "]", "\\", "A", "a", " ", eof}

ShortInputs == BoundedSeq(Alphabet, MaxLen)

\* the inputs of TestLexer
TestInputs ==
    {<<>>,
     <<" ", "a", "s", "d", "f", " ", "a", "s", "d", "f", " ">>,
     <<"(", ")">>,
     <<" ", " ", "(", " ", " ", ")", " ", " ">>,
     <<"(", ")", "(", ")">>,
     <<"(", "(", ")", ")">>,
     <<"(">>,
     <<"(", ")", ")">>,
     <<"(", ";", "A", "[", "]", "B", "X", "[", "1", "]", ";", "C", "[", "h", "e", "l", "l", "o", " ", "[", "w", "o", "r", "l", "d", "\\", "]", " ", "E4", "B8", "96", "E7", "95", "8C", "]", ";", "D", "E", "F", "[", "]", ")">>,
     <<"(", ";", "a", "[", "]", ")">>,
     <<"(", ";", "A">>,
     <<"(", ";", "A", "[">>,
     <<"\n", "\t", "\t", "(", "\n", "\t", "\t", "\t", ";", "F", "F", "[", "4", "]", "\n", "\t", "\t", "\t", "G", "M", "[", "1", "]", "\n", "\t", "\t", "\t", "S", "Z", "[", "1", "9", "]", "\n", "\t", "\t", "\t", ";", "B", "[", "a", "a", "]", ";", "W", "[", "b", "b", "]", "\n", "\t", "\t", "\t", "(", ";", "B", "[", "c", "c", "]", ";", "W", "[", "d", "d", "]", ";", "B", "[", "f", "f", "]", ")", "\n", "\t", "\t", "\t", "(", ";", "B", "[", "l", "l", "]", ")", "\n", "\t", "\t", ")", "\n", "\t", "\t">>}

\* further buffers: nodes, values, identifiers and encodings
ExampleInputs ==
    {<<"(", ";", ")">>,
     <<"(", ";", ";", ")">>,
     <<"(", ";", " ", ";", "A", "[", "]", ")">>,
     <<"(", ";", "(", ";", ")", ")">>,
     <<"(", ";", "A", "[", "]", "(", ";", "B", "[", "a", "a", "]", ")", ")">>,
     <<"(", ";", "A", "[", "]", ")", "(">>,
     <<"(", ";", "A", "[", "]", ")", "(", ")", ")">>,
     <<"(", ";", "B", "[", "a", "a", "]", ")", "(", ";", "W", "[", "b", "b", "]", ")", "x", ")">>,
     <<"(", ";", "S", "Z", "[", "1", "9", "]", ")">>,
     <<"(", ";", "S", "Z", "[", "1", "9", ":", "1", "9", "]", ")">>,
     <<"(", ";", "S", "Z", "[", "a", "b", "c", "]", ")">>,
     <<"(", ";", "D", "E", "F", "[", "]", ")">>,
     <<"(", ";", "B", "[", "a", "a", "]", ")">>,
     <<"(", ";", "S", "Z", "[", "1", "9", "]", "B", "[", "a", ":", "b", "]", ")">>,
     <<"(", ";", "S", "Z", "[", "1", "9", "]", "C", "[", "a", ":", "b", "]", ")">>,
     <<"(", ";", "S", "Z", "[", "1", "9", "]", "X", "X", "[", "a", ":", "b", "]", ")">>,
     <<"(", ";", "A", "B", "[", "a", "a", "]", "[", "b", "b", "]", ")">>,
     <<"(", ";", "A", "B", "[", "a", "a", "]", " ", "[", "b", "b", "]", ")">>,
     <<"(", ";", "A", "[", "]", "[", "]", ")">>,
     <<"(", ";", "A", "[", "]", "[", "]", "[", "]", ")">>,
     <<"(", ";", "C", "[", "x", "]", "[", "y", "]", ")">>,
     <<"(", ";", "[", "]", ")">>,
     <<"(", ";", "A", "[", "]", "A", "[", "]", ")">>,
     <<"(", ";", "B", "[", "a", "a", "]", "W", "[", "b", "b", "]", "B", "[", "c", "c", "]", ")">>,
     <<"(", ";", "C", "[", "a", "\\", "]", "b", "]", ")">>,
     <<"(", ";", "C", "[", "a", "\\", "\\", "]", ")">>,
     <<"(", ";", "C", "[", "a", "\\">>,
     <<"(", ";", "C", "[", ";", "(", ")", "[", "]", ")">>,
     <<"(", ";", "A", "[", "]", "\r", "\n", "B", "[", "a", "a", "]", ")">>,
     <<"(", ";", "A", "[", "]", "\n", "B", "[", "a", "a", "]", ")">>,
     <<"(", ";", "\r", "A", "[", "]", ")">>,
     <<"(", ";", "A", "[", "]", eof, ")">>,
     <<eof, "(", ")">>,
     <<"(", eof, ")">>,
     <<"(", ";", "A", eof, "[", "]", ")">>,
     <<"(", ";", "C", "[", "a", eof, "b", "]", ")">>,
     <<"(", ";", "C", "A", "[", "U", "T", "F", "-", "8", "]", ")">>,
     <<"(", ";", "C", "A", "[", "u", "t", "f", "-", "8", "]", "C", "[", "x", "]", ")">>,
     <<"(", ";", "C", "A", "[", "l", "a", "t", "i", "n", "1", "]", ")">>,
     <<"(", ";", "C", "A", "[", "]", ")">>,
     <<"(", ";", "A", ";", "B", "[", "]", ")">>,
     <<"(", ";", "A", "B", ";", ")">>,
     <<"(", ";", "A", "[", "]", "b", ")">>,
     <<"(", ";", "F", "F", "[", "4", "]", "G", "M", "[", "1", "]", ";", "B", "[", "a", "a", "]", "(", ";", "W", "[", "b", "b", "]", ")", "(", ";", "W", "[", "c", "c", "]", ")", ")">>}

\* well-formed trees, their properties built as the sgf API builds them
TreeProperty(identity, texts) ==
    NewProperty(identity, [i \in 1..Len(texts) |-> NewPropertyValue(texts[i])]).p

TreeProperties ==
    {TreeProperty(<<"B">>, <<<<"a", "a">>>>),
     TreeProperty(<<"S", "Z">>, <<<<"1", "9">>>>),
     TreeProperty(<<"A", "B">>, <<<<"a", "a">>, <<"b", "b">>>>)}

NodesOver(properties) ==
    {[Properties |-> ps] :
        ps \in {<<>>} \cup {<<p>> : p \in properties}
               \cup {<<pq[1], pq[2]>> :
                        pq \in {x \in properties \X properties :
                                   x[1].Identity # x[2].Identity}}}

SequencesOver(nodes) == {<<n>> : n \in nodes} \cup {<<n, m>> : n \in nodes, m \in nodes}

TreesOver(sequences, nodes) ==
    {[Sequence |-> s, Subtrees |-> <<>>] : s \in sequences}
    \cup {[Sequence |-> s,
           Subtrees |-> <<[Sequence |-> <<n>>, Subtrees |-> <<>>]>>] :
             s \in sequences, n \in nodes}

WellFormedTrees ==
    With(NodesOver(TreeProperties), LAMBDA nodes : TreesOver(SequencesOver(nodes), nodes))

TreeInputs == {GameTreeString(gt) : gt \in WellFormedTrees}

Inputs == ShortInputs \cup TestInputs \cup ExampleInputs \cup TreeInputs

(***************************************************************************)
(* Spec: one call of Parse on a buffer, the lexer goroutine and the parser *)
(* running side by side.                                                   *)
(***************************************************************************)
Init ==
    /\ input \in Inputs
    /\ l = lex
    /\ lpc = "run"
    /\ items = <<>>
    /\ closed = FALSE
    /\ parser = Parse(input)
    /\ received = <<>>
    /\ prop = <<>>
    /\ perr = ErrNil

Next ==
    \/ lexBytes
    \/ lexOpenParen
    \/ lexCloseParen
    \/ lexTree
    \/ lexSemiColon
    \/ lexProperty
    \/ errorf
    \/ run
    \/ parseCollection
    \/ parseGameTree
    \/ parseSequence
    \/ parseNode

Spec == Init /\ [][Next]_vars

(***************************************************************************)
(* SpecProperty: a Property built through the sgf API, NewProperty and     *)
(* then AddValue, on value texts of at most MaxValueLen bytes over         *)
(* ValueAlphabet and further texts, up to MaxValues values.                *)
(***************************************************************************)
ValueAlphabet == {"1", ":"}

ExampleValueTexts ==
    {<<"1", "9">>, <<"1", "9", ":", "1", "9">>, <<"a", "b", "c">>, <<"a">>,
     <<"a", ":", "b">>, <<"B">>, <<"-", "1">>, <<"1", ".", "5">>,
     <<"1", "x", "5">>, <<"1", ".">>, <<".", "5">>}

ValueTexts == BoundedSeq(ValueAlphabet, MaxValueLen) \cup ExampleValueTexts

\* a value made by NewPropertyValue, or one that a number property held before
PropertyValues ==
    {NewPropertyValue(v) : v \in ValueTexts}
    \cup {[Value |-> v, validatorName |-> "number"] : v \in {<<"1">>, <<"a">>}}

PropertyIdentities ==
    {<<>>, <<"B">>, <<"S", "E">>, <<"C">>, <<"P", "B">>, <<"S", "Z">>, <<"K", "M">>,
     <<"A", "B">>, <<"L", "B">>, <<"F", "G">>, <<"D", "D">>, <<"X", "X">>}

InitProperty ==
    /\ input = <<>>
    /\ l = lex
    /\ lpc = "run"
    /\ items = <<>>
    /\ closed = FALSE
    /\ parser = Parse(input)
    /\ received = <<>>
    /\ prop = <<>>
    /\ perr = ErrNil

PropertyFrame == UNCHANGED <<input, l, lpc, items, closed, parser, received>>

CallNewProperty ==
    /\ prop = <<>>
    /\ \E identity \in PropertyIdentities :
       \E values \in BoundedSeq(PropertyValues, MaxValues) :
          LET r == NewProperty(identity, values)
          IN  prop' = <<r.p>> /\ perr' = r.err
    /\ PropertyFrame

CallAddValue ==
    /\ prop # <<>>
    /\ Len(prop[1].Values) < MaxValues
    /\ \E pv \in PropertyValues :
          LET r == AddValue(prop[1], pv)
          IN  prop' = <<r.p>> /\ perr' = r.err
    /\ PropertyFrame

NextProperty == CallNewProperty \/ CallAddValue

SpecProperty == InitProperty /\ [][NextProperty]_vars

(***************************************************************************)
(* SpecLexer: the lexer goroutine alone, its items received one after the  *)
(* other by a consumer that keeps receiving, as checkLexerOutput does.     *)
(* The goroutine runs whenever it can, and so does the consumer.           *)
(***************************************************************************)
\* case lv := <-l.items, for as long as the channel gives an item
checkLexerOutput ==
    /\ items # <<>>
    /\ received' = Append(received, items[1])
    /\ items' = <<>>
    /\ UNCHANGED <<input, l, lpc, closed, parser, prop, perr>>

LexerStep ==
    \/ lexBytes
    \/ lexOpenParen
    \/ lexCloseParen
    \/ lexTree
    \/ lexSemiColon
    \/ lexProperty
    \/ errorf
    \/ run

NextLexer == LexerStep \/ checkLexerOutput

SpecLexer ==
    /\ Init
    /\ [][NextLexer]_vars
    /\ WF_vars(LexerStep)
    /\ WF_vars(checkLexerOutput)

(***************************************************************************)
(* SpecFair: Spec with its scheduling.  The goroutine of lex runs whenever *)
(* it can, and so does the goroutine that called Parse.                    *)
(***************************************************************************)
ParserStep ==
    \/ parseCollection
    \/ parseGameTree
    \/ parseSequence
    \/ parseNode

SpecFair ==
    /\ Init
    /\ [][Next]_vars
    /\ WF_vars(LexerStep)
    /\ WF_vars(ParserStep)

(***************************************************************************)
(* Properties of Parse, checked under Spec.                                *)
(***************************************************************************)
Last(s) == s[Len(s)]

\* Parse has returned
Returned == parser.pc = "done"

\* the nesting, identities and value texts of a tree, in order
PropertyShape(p) ==
    [Identity |-> p.Identity,
     Values |-> [i \in 1..Len(p.Values) |-> p.Values[i].Value]]

NodeShape(n) == [i \in 1..Len(n.Properties) |-> PropertyShape(n.Properties[i])]

RECURSIVE TreeShape(_)
TreeShape(gt) ==
    [Sequence |-> [i \in 1..Len(gt.Sequence) |-> NodeShape(gt.Sequence[i])],
     Subtrees |-> [i \in 1..Len(gt.Subtrees) |-> TreeShape(gt.Subtrees[i])]]

CollectionShape(collection) ==
    [i \in 1..Len(collection) |-> TreeShape(collection[i])]

\* C1: round trip. When Parse has returned on the text GameTree.String gives
\* for a well-formed tree, the error is nil and the collection is that one
\* tree: the same nesting, identities, value texts and order.
C1_RoundTrip ==
    (Returned /\ input \in TreeInputs) =>
        \A gt \in WellFormedTrees :
            input = GameTreeString(gt) =>
                /\ parser.err = ErrNil
                /\ CollectionShape(parser.collection) = <<TreeShape(gt)>>

\* properties written ID[v1]...[vn] in the single node of a single tree
MultiValued ==
    {[id |-> id, vs |-> vs] :
        id \in {<<"A">>, <<"C">>, <<"A", "B">>},
        vs \in BoundedSeq({<<>>, <<"x">>, <<"y">>, <<"a", "a">>, <<"b", "b">>}, 3)
               \ {<<>>}}

MultiValuedText(m) ==
    <<"(", ";">> \o m.id
    \o Concat([i \in 1..Len(m.vs) |-> <<"[">> \o m.vs[i] \o <<"]">>])
    \o <<")">>

Triples(n) ==
    Concat([i \in 1..n |-> <<"itemOpenBracket", "itemPropertyValue", "itemCloseBracket">>])

\* C2: a property written ID[v1]...[vn] is received as one identifier token
\* followed by n (open bracket, value, close bracket) triples, and Parse
\* returns one Property with identity ID holding v1..vn in order.
C2_OnePropertyManyValues ==
    Returned =>
        \A m \in MultiValued :
            input = MultiValuedText(m) =>
                /\ [i \in 1..Len(received) |-> received[i].typ]
                     = <<"itemOpenParen", "itemSemiColon", "itemPropertyIdent">>
                       \o Triples(Len(m.vs)) \o <<"itemCloseParen", "itemEOF">>
                /\ parser.err = ErrNil
                /\ CollectionShape(parser.collection)
                     = <<[Sequence |-> << <<[Identity |-> m.id, Values |-> m.vs]>> >>,
                          Subtrees |-> <<>>]>>

LongIdentifierWarning == "lex: Found PropertyIdent wider than 2 characters"

\* C3: a long identifier never makes the parse fail. The parser does not
\* return on the warning token, and Parse of (;DEF[]) returns the tree with a
\* nil error and the long-identifier warning in its warnings.
C3_LongIdentifierWarns ==
    /\ (received # <<>> /\ Last(received).typ = "itemWarning") => ~Returned
    /\ (Returned /\ input = <<"(", ";", "D", "E", "F", "[", "]", ")">>) =>
            /\ parser.err = ErrNil
            /\ \E i \in 1..Len(parser.warnings) : parser.warnings[i] = LongIdentifierWarning
            /\ CollectionShape(parser.collection)
                 = <<[Sequence |-> << <<[Identity |-> <<"D", "E", "F">>,
                                         Values |-> << <<>> >>]>> >>,
                      Subtrees |-> <<>>]>>

\* C4: when Parse returns a non-nil error the collection it returns holds no
\* GameTree.
C4_NoTreeOnError ==
    (Returned /\ parser.err # ErrNil) => parser.collection = <<>>

\* the messages of the fatal taxonomy: the lexer's errors, the parser's
\* errors, the duplicate property and the closed channel
LexErrors ==
    {"lex: too many right parentheses",
     "lex: unexpected EOF; expected GameTree contents or ')'",
     "lex: unexpected EOF; expected PropertyIdent",
     "lex: unexpected ';'; expected PropertyIdent",
     "lex: PropertyIdent must be upper-case letters",
     "lex: unexpected EOF; expected PropertyValue"}

ParseErrors ==
    {"parse: only GameTrees are allowed at the top level",
     "parse: the GameTree sequence must have at least one node in it",
     "parse: got a property value without an opening [",
     "parse: got a closing ] without an opening [",
     "sgf: only one of each property is allowed per node",
     ErrClosed}

FatalTaxonomy(err) ==
    \/ err \in LexErrors \cup ParseErrors
    \/ /\ received # <<>>
       /\ err = "parse: unexpected item: " \o ItemString(Last(received))

\* the errors of a value that fails the shape grammar of its property
ShapeErrors ==
    {"not enough parts in composition",
     "None type Property Values must be empty",
     "Double type Property Values must be either '1' or '2'",
     "Color type Property Values must be either 'B' or 'W'",
     "Number type Property Value expected positive or negative integer",
     "Real type Property Value expected positive or negative real number"}

RECURSIVE PropertiesOf(_)
PropertiesOf(gt) ==
    {gt.Sequence[i].Properties[j] :
        <<i, j>> \in {x \in (1..Len(gt.Sequence)) \X (1..3) :
                        x[2] <= Len(gt.Sequence[x[1]].Properties)}}
    \cup UNION {PropertiesOf(gt.Subtrees[i]) : i \in 1..Len(gt.Subtrees)}

EmptyNodeInputs ==
    {<<"(", ";", ")">>,
     <<"(", ";", " ", ")">>,
     <<"(", ";", ";", ")">>,
     <<"(", ";", "(", ";", ")", ")">>}

\* C6: a node may have no property. Parse of a text whose ';' is followed by
\* ')', '(' or ';' returns a nil error, and Parse of (;) returns one GameTree
\* whose Sequence is one Node without properties.
C6_EmptyNode ==
    /\ (Returned /\ input \in EmptyNodeInputs) => parser.err = ErrNil
    /\ (Returned /\ input = <<"(", ";", ")">>) =>
            parser.collection = <<[Sequence |-> <<NewNode>>, Subtrees |-> <<>>]>>

(***************************************************************************)
(* Properties of the Property built through the sgf API, checked under     *)
(* SpecProperty.                                                           *)
(***************************************************************************)
\* every value of p carries the grammar of p
Inherits(p) == \A i \in 1..Len(p.Values) : p.Values[i].validatorName = p.validatorName

\* C7: a Property whose grammar is text, simpletext or unknown is valid for
\* any single value text, the colon included.
C7_TextAcceptsAnything ==
    prop # <<>> =>
        ((/\ prop[1].validatorName \in {"text", "simpletext", "unknown"}
          /\ Len(prop[1].Values) = 1
          /\ Inherits(prop[1]))
            => prop[1].Validated = "Valid")

\* C8: a not-a-list Property whose grammar is the single atom move, stone or
\* point, with one non-empty value, has status deferred.
C8_MoveIsDeferred ==
    prop # <<>> =>
        ((/\ prop[1].listiness = "propertyNotList"
          /\ prop[1].validatorName \in {"move", "stone", "point"}
          /\ Len(prop[1].Values) = 1
          /\ prop[1].Values[1].Value # <<>>
          /\ Inherits(prop[1]))
            => prop[1].Validated = "ValidationDeferred")

\* an alternative accepts a text: as many atoms as parts, and every part
\* satisfies its atom
Accepts(alternative, text) ==
    LET atoms == SplitComposed(alternative)
        parts == SplitValue(text)
    IN  /\ Len(atoms) = Len(parts)
        /\ \A j \in 1..Len(atoms) : validatePropertyValuePart(atoms[j], parts[j]) = ErrNil

\* the failure of an alternative that does not accept a text
Failure(alternative, text) ==
    LET atoms == SplitComposed(alternative)
        parts == SplitValue(text)
    IN  IF Len(atoms) # Len(parts) THEN "not enough parts in composition"
        ELSE LET k == CHOOSE j \in 1..Len(atoms) :
                        /\ validatePropertyValuePart(atoms[j], parts[j]) # ErrNil
                        /\ \A i \in 1..(j - 1) :
                               validatePropertyValuePart(atoms[i], parts[i]) = ErrNil
             IN  validatePropertyValuePart(atoms[k], parts[k])

Accepted(pv) ==
    \E i \in 1..Len(SplitAlternatives(pv.validatorName)) :
        Accepts(SplitAlternatives(pv.validatorName)[i], pv.Value)

TextsOf(p) == [i \in 1..Len(p.Values) |-> p.Values[i].Value]

\* C9: validatePropertyValue accepts a value exactly when some alternative of
\* its grammar accepts it, and otherwise returns the failure of the first
\* alternative; a Property with one value takes its status and its error from
\* that result. For SZ: 19 and 19:19 are valid, abc is invalid.
C9_SomeAlternative ==
    prop # <<>> =>
        /\ \A i \in 1..Len(prop[1].Values) :
              LET pv == prop[1].Values[i]
              IN  IF Accepted(pv)
                  THEN validatePropertyValue(pv) = ErrNil
                  ELSE validatePropertyValue(pv)
                         = Failure(SplitAlternatives(pv.validatorName)[1], pv.Value)
        /\ Len(prop[1].Values) = 1 =>
              LET pv == prop[1].Values[1]
                  failure == Failure(SplitAlternatives(pv.validatorName)[1], pv.Value)
              IN  IF Accepted(pv)
                  THEN prop[1].Validated = "Valid" /\ perr = ErrNil
                  ELSE IF failure = ErrDeferred
                  THEN prop[1].Validated = "ValidationDeferred" /\ perr = ErrNil
                  ELSE prop[1].Validated = "Invalid" /\ perr = failure
        /\ prop[1].Identity = <<"S", "Z">> =>
              /\ TextsOf(prop[1]) \in {<< <<"1", "9">> >>, << <<"1", "9", ":", "1", "9">> >>}
                    => prop[1].Validated = "Valid"
              /\ TextsOf(prop[1]) = << <<"a", "b", "c">> >> => prop[1].Validated = "Invalid"

\* SZ holds 19:19, which its second alternative accepts and its first does not
C9_Witness ==
    /\ prop # <<>>
    /\ prop[1].Identity = <<"S", "Z">>
    /\ TextsOf(prop[1]) = << <<"1", "9", ":", "1", "9">> >>
    /\ ~Accepts(SplitAlternatives(prop[1].validatorName)[1], prop[1].Values[1].Value)
    /\ prop[1].Validated = "Valid"

ValueError(pv) == validatePropertyValue(pv)

\* the status the values of p call for
Status(p) ==
    IF \/ p.listiness = "propertyNotList" /\ Len(p.Values) > 1
       \/ \E i \in 1..Len(p.Values) :
             ValueError(p.Values[i]) \notin {ErrNil, ErrDeferred}
    THEN "Invalid"
    ELSE IF \E i \in 1..Len(p.Values) : ValueError(p.Values[i]) = ErrDeferred
    THEN "ValidationDeferred"
    ELSE "Valid"

\* C10: after NewProperty and after every AddValue the status of the
\* Property is the one its present values call for: invalid if a value fails
\* or the cardinality is violated, otherwise deferred if a value is deferred,
\* otherwise valid; never not-validated.
C10_StatusRecomputed ==
    prop # <<>> => prop[1].Validated = Status(prop[1])

\* a list Property whose first value is deferred and whose second value fails
C10_Witness ==
    /\ prop # <<>>
    /\ Len(prop[1].Values) = 2
    /\ prop[1].listiness = "propertyList"
    /\ ValueError(prop[1].Values[1]) = ErrDeferred
    /\ ValueError(prop[1].Values[2]) \notin {ErrNil, ErrDeferred}
    /\ prop[1].Validated = "Invalid"

CardinalityError(p) == "Property " \o Str(p.Identity) \o " can only have one value"

\* C11: a not-a-list Property that holds a second value has the error "can
\* only have one value" and the status invalid; a list, elist or
\* unknown-arity Property that holds a second or later value has no
\* cardinality error, and the error it has is the one of its values.
C11_Cardinality ==
    (prop # <<>> /\ Len(prop[1].Values) >= 2) =>
        IF prop[1].listiness = "propertyNotList"
        THEN perr = CardinalityError(prop[1]) /\ prop[1].Validated = "Invalid"
        ELSE /\ perr # CardinalityError(prop[1])
             /\ perr \in {ErrNil} \cup {ValueError(prop[1].Values[i]) :
                                           i \in 1..Len(prop[1].Values)}
             /\ (\A i \in 1..Len(prop[1].Values) : Accepted(prop[1].Values[i]))
                    => prop[1].Validated = "Valid"

\* C holds two values, each of which its grammar accepts, and is invalid
C11_Witness ==
    /\ prop # <<>>
    /\ prop[1].Identity = <<"C">>
    /\ Len(prop[1].Values) = 2
    /\ \A i \in 1..2 : Accepted(prop[1].Values[i])
    /\ perr = CardinalityError(prop[1])
    /\ prop[1].Validated = "Invalid"

ErrDuplicate == "sgf: only one of each property is allowed per node"

\* no two properties of n have the same identity
Distinct(n) ==
    \A i, j \in 1..Len(n.Properties) :
        i # j => n.Properties[i].Identity # n.Properties[j].Identity

RECURSIVE NodesOf(_)
NodesOf(gt) ==
    {gt.Sequence[i] : i \in 1..Len(gt.Sequence)}
    \cup UNION {NodesOf(gt.Subtrees[i]) : i \in 1..Len(gt.Subtrees)}

\* the nodes the parser holds: the one parseNode builds, those of the
\* parseGameTree calls in progress and those of the collection
ParserNodes ==
    {parser.n}
    \cup UNION {NodesOf(parser.stack[k].gt) : k \in 1..Len(parser.stack)}
    \cup UNION {{parser.stack[k].sequence[i] : i \in 1..Len(parser.stack[k].sequence)} :
                   k \in 1..Len(parser.stack)}
    \cup UNION {NodesOf(parser.collection[i]) : i \in 1..Len(parser.collection)}

\* C12: no node has two properties of the same identity. AddProperty of the
\* property parseNode holds, to the node it builds, returns an error and the
\* node unchanged when the identity is present, and appends it otherwise;
\* every node the parser holds has pairwise distinct identities, and Parse of
\* (;A[]A[]) returns the error of AddProperty.
C12_DistinctIdentities ==
    /\ \A n \in ParserNodes : Distinct(n)
    /\ parser.currentProperty # <<>> =>
          LET p == parser.currentProperty[1]
              r == AddProperty(parser.n, p)
          IN  IF \E i \in 1..Len(parser.n.Properties) :
                     parser.n.Properties[i].Identity = p.Identity
              THEN r.err = ErrDuplicate /\ r.n = parser.n
              ELSE r.err = ErrNil /\ r.n.Properties = Append(parser.n.Properties, p)
    /\ (Returned /\ input = <<"(", ";", "A", "[", "]", "A", "[", "]", ")">>) =>
          parser.err = ErrDuplicate

\* Parse of (;A[]A[]) has returned the error of the second A
C12_Witness ==
    /\ Returned
    /\ input = <<"(", ";", "A", "[", "]", "A", "[", "]", ")">>
    /\ parser.err = ErrDuplicate
    /\ Last(received).typ = "itemCloseParen"

ErrEmptySequence == "parse: the GameTree sequence must have at least one node in it"

\* gt and the GameTrees below it
RECURSIVE TreesOf(_)
TreesOf(gt) == {gt} \cup UNION {TreesOf(gt.Subtrees[i]) : i \in 1..Len(gt.Subtrees)}

\* the GameTrees parseGameTree has returned
ReturnedTrees ==
    UNION {TreesOf(parser.collection[i]) : i \in 1..Len(parser.collection)}
    \cup UNION {UNION {TreesOf(parser.stack[k].gt.Subtrees[i]) :
                          i \in 1..Len(parser.stack[k].gt.Subtrees)} :
                   k \in 1..Len(parser.stack)}

Emitted == received \o items

TypesOf(its) == [i \in 1..Len(its) |-> its[i].typ]

\* C14: every property-identifier token the lexer emits has a text that is a
\* non-empty run of the letters A-Z.
C14_IdentifierIsUpperCase ==
    \A i \in 1..Len(Emitted) :
        Emitted[i].typ = "itemPropertyIdent" =>
            /\ Emitted[i].val # <<>>
            /\ \A k \in 1..Len(Emitted[i].val) : Emitted[i].val[k] \in UpperCase

ErrorEmitted == \E i \in 1..Len(Emitted) : Emitted[i].typ = "itemError"

\* the token that follows a warning is the identifier the warning is about
WarningGoesOn ==
    \A i \in 1..Len(Emitted) :
        Emitted[i].typ = "itemWarning" =>
            IF i < Len(Emitted)
            THEN /\ Emitted[i + 1].typ = "itemPropertyIdent"
                 /\ Emitted[i + 1].pos = Emitted[i].pos
                 /\ Len(Emitted[i + 1].val) > 2
                 /\ Emitted[i + 1].val
                      = SubSeq(input, Emitted[i].pos + 1,
                               Emitted[i].pos + Len(Emitted[i + 1].val))
            ELSE ~closed /\ lpc = "lexProperty_emitWarning"

\* C15: an error token is the last token: once it is emitted no token
\* follows, and the channel is closed after the consumer has received it. A
\* warning token does not end production: the identifier token follows it.
C15_ErrorEndsProduction ==
    /\ [](\A i \in 1..Len(Emitted) :
              Emitted[i].typ = "itemError" => i = Len(Emitted))
    /\ [](closed => items = <<>>)
    /\ []WarningGoesOn
    /\ (ErrorEmitted ~> closed)

\* the channel is closed after an error token that followed other tokens
C15_Witness ==
    /\ closed
    /\ Len(received) > 2
    /\ Last(received).typ = "itemError"

\* C16: with a consumer that keeps receiving, the lexer terminates on every
\* buffer: the channel is closed in the end, and then the tokens received
\* hold exactly one end-of-input or error token, the last one.
C16_LexerTerminates ==
    /\ <>closed
    /\ [](closed =>
            /\ items = <<>>
            /\ received # <<>>
            /\ \A i \in 1..Len(received) :
                  received[i].typ \in {"itemEOF", "itemError"} <=> i = Len(received))

\* the channel is closed after the end-of-input token that followed a tree
C16_Witness ==
    /\ closed
    /\ Len(received) > 3
    /\ Last(received).typ = "itemEOF"

\* the number of tokens of type t among the first k emitted
Count(t, k) == Cardinality({i \in 1..k : Emitted[i].typ = t})

ErrTooManyParens == "lex: too many right parentheses"

ErrEOFInTree == "lex: unexpected EOF; expected GameTree contents or ')'"

ErrEOFInIdent == "lex: unexpected EOF; expected PropertyIdent"

ErrEOFInValue == "lex: unexpected EOF; expected PropertyValue"

\* the open parens not yet closed among the first k tokens
Depth(k) == Count("itemOpenParen", k) - Count("itemCloseParen", k)

\* the last read of the lexer found the cursor at the length of the buffer
AtEndOfBuffer == l.pos = Len(input) /\ l.width = 0

ErrUpperCase == "lex: PropertyIdent must be upper-case letters"

ErrSemiColonInIdent == "lex: unexpected ';'; expected PropertyIdent"

Whitespace == {" ", "\n", "\t"}

\* the offset of the first byte at or after offset p that is not in set, the
\* length of the buffer when there is none
RECURSIVE Skip(_, _)
Skip(set, p) ==
    IF p < Len(input) /\ input[p + 1] \in set THEN Skip(set, p + 1) ELSE p

\* the identifier run lexProperty is about to read: it begins after the
\* whitespace at the cursor and ends before the byte at offset RunEnd
RunStart == Skip(Whitespace, l.pos)

RunEnd == Skip(UpperCase, RunStart)

\* lexProperty has sent the error msg, directly after the tokens sent so far
SendsError(msg) ==
    /\ received' = received
    /\ Len(items') = 1
    /\ items'[1].typ = "itemError"
    /\ items'[1].msg = msg

RECURSIVE ValueEnd(_)
ValueEnd(p) ==
    IF p >= Len(input) \/ input[p + 1] = eof
    THEN -1
    ELSE IF input[p + 1] = "\\"
    THEN ValueEnd(p + 2)
    ELSE IF input[p + 1] = "]"
    THEN p
    ELSE ValueEnd(p + 1)

SimpleNodes ==
    <<"(", ";", "A", "[", "]", "B", "X", "[", "1", "]", ";", "C", "[",
      "h", "e", "l", "l", "o", " ", "[", "w", "o", "r", "l", "d", "\\", "]", " ",
      "E4", "B8", "96", "E7", "95", "8C", "]", ";", "D", "E", "F", "[", "]", ")">>

HelloWorld ==
    <<"h", "e", "l", "l", "o", " ", "[", "w", "o", "r", "l", "d", "\\", "]", " ",
      "E4", "B8", "96", "E7", "95", "8C">>

StoppedOnViolation ==
    /\ Returned
    /\ parser.err \notin {ErrNil, ErrClosed} \cup LexErrors

\* C21: once Parse has returned on a structural violation it found itself,
\* the lexer goroutine leaves the loop of run and closes the channel in the
\* end, and does not stay in a send that nobody receives.
C21_LexerHaltsWithParser ==
    /\ StoppedOnViolation ~> closed
    /\ ~<>[](StoppedOnViolation /\ items # <<>>)

\* C22: the lexer is at most one token ahead of the parser: at most one
\* token waits in the channel, and while it waits the goroutine of the
\* lexer stands in its send and lexes nothing. The parser moves only by
\* receiving: it takes the waiting token, or finds the channel closed.
C22_OneTokenHandoff ==
    /\ [](/\ Len(items) <= 1
          /\ Len(Emitted) - Len(received) <= 1
          /\ items # <<>> => lpc \notin {"run", "done"})
    /\ [][items # <<>> => (l' = l /\ lpc' = lpc /\ closed' = closed)]_vars
    /\ [][parser' # parser =>
            /\ items # <<>> \/ closed
            /\ items # <<>> =>
                  (received' = Append(received, items[1]) /\ items' = <<>>)]_vars
    /\ [][received' # received =>
            /\ ~Returned
            /\ items # <<>>
            /\ received' = Append(received, items[1])
            /\ items' = <<>>]_vars

\* a token waits in the channel while the parser stands in parseNode
C22_Witness ==
    /\ items # <<>>
    /\ items[1].typ = "itemPropertyValue"
    /\ parser.pc = "parseNode"
    /\ Len(received) > 3

(***************************************************************************)
(* The pipeline in one thread: the state functions called one after the    *)
(* other as run calls them, the items they send collected in order, and    *)
(* the parser fed from that list.                                          *)
(***************************************************************************)
\* lexProperty from the '[' that ended the identifier run: lb is the lexer
\* after the read of '[', out the items sent for the identifier
lexValuePull(lb, out) ==
    With(ValueLoop(emitted(lb)), LAMBDA v :
        IF v.ret = "errorf"
        THEN [l |-> [v.l EXCEPT !.state = "nil"],
              out |-> out \o <<item("itemOpenBracket", lb),
                               message("itemError", v.l,
                                  "lex: unexpected EOF; expected PropertyValue")>>]
        ELSE With(next(emitted(v.l)).l, LAMBDA lc :
                With(peek(consumeWhitespace(emitted(lc))), LAMBDA p :
                    [l |-> [p.l EXCEPT !.state =
                               IF p.r \in {";", "(", ")", eof}
                               THEN "lexTree" ELSE "lexProperty"],
                     out |-> out \o <<item("itemOpenBracket", lb),
                                      item("itemPropertyValue", v.l),
                                      item("itemCloseBracket", lc)>>])))

lexPropertyPull(lx) ==
    With(IdentLoop(consumeWhitespace(lx)), LAMBDA r :
        IF r.ret = "errorf"
        THEN [l |-> [r.l EXCEPT !.state = "nil"],
              out |-> <<message("itemError", r.l, r.msg)>>]
        ELSE IF r.ret = "lexSemiColon"
        THEN [l |-> [r.l EXCEPT !.state = "lexSemiColon"], out |-> <<>>]
        ELSE lexValuePull(next(emitted(r.l)).l,
                (IF r.l.pos - r.l.start > 2
                 THEN <<message("itemWarning", r.l,
                           "lex: Found PropertyIdent wider than 2 characters")>>
                 ELSE <<>>) \o <<item("itemPropertyIdent", r.l)>>))

lexCloseParenPull(lx) ==
    IF lx.treeDepth < 0
    THEN [l |-> [lx EXCEPT !.state = "nil"],
          out |-> <<message("itemError", lx, "lex: too many right parentheses")>>]
    ELSE [l |-> [emitted(lx) EXCEPT
                    !.state = IF lx.treeDepth > 0 THEN "lexTree" ELSE "lexBytes"],
          out |-> <<item("itemCloseParen", lx)>>]

\* l.state(l): the lexer with the state function returned, and the items sent
stateFnPull(lx) ==
    IF lx.state = "lexBytes"
    THEN With(lexBytesLoop(lx), LAMBDA r :
            IF r.ret = "break"
            THEN [l |-> [emitted(r.l) EXCEPT !.state = "nil"],
                  out |-> <<item("itemEOF", r.l)>>]
            ELSE [l |-> [r.l EXCEPT !.state = r.ret], out |-> <<>>])
    ELSE IF lx.state = "lexOpenParen"
    THEN [l |-> [emitted(lx) EXCEPT !.treeDepth = lx.treeDepth + 1,
                                    !.state = "lexTree"],
          out |-> <<item("itemOpenParen", lx)>>]
    ELSE IF lx.state = "lexCloseParen"
    THEN lexCloseParenPull([lx EXCEPT !.treeDepth = lx.treeDepth - 1])
    ELSE IF lx.state = "lexTree"
    THEN With(lexTreeLoop(lx), LAMBDA r :
            IF r.ret = "errorf"
            THEN [l |-> [r.l EXCEPT !.state = "nil"],
                  out |-> <<message("itemError", r.l,
                               "lex: unexpected EOF; expected GameTree contents or ')'")>>]
            ELSE [l |-> [r.l EXCEPT !.state = r.ret], out |-> <<>>])
    ELSE IF lx.state = "lexSemiColon"
    THEN [l |-> [emitted(lx) EXCEPT !.state = "lexProperty"],
          out |-> <<item("itemSemiColon", lx)>>]
    ELSE lexPropertyPull(lx)

\* run in one thread: the items sent until the state is nil
RECURSIVE runPull(_, _)
runPull(lx, out) ==
    IF lx.state = "nil"
    THEN out
    ELSE With(stateFnPull(lx), LAMBDA r : runPull(r.l, out \o r.out))

Tokens == runPull(lex, <<>>)

\* the parser on the item it receives, in the function whose receive it stands in
handle(ps, lastItem) ==
    IF ps.pc = "parseCollection" THEN parseCollectionSwitch(ps, lastItem)
    ELSE IF ps.pc = "parseGameTree" THEN parseGameTreeLoop(ps, lastItem)
    ELSE IF ps.pc = "parseSequence" THEN parseSequenceLoop(ps, lastItem)
    ELSE parseNodeSwitch(ps, lastItem)

\* the parser fed the items of toks one by one, as far as it asks for them
RECURSIVE parseSome(_, _)
parseSome(ps, toks) ==
    IF ps.pc \notin {"parseCollection", "parseGameTree", "parseSequence", "parseNode"}
       \/ toks = <<>>
    THEN ps
    ELSE parseSome(handle(ps, Head(toks)), Tail(toks))

\* parseSome on all the items of the lexer: after the last one the channel
\* is closed
parsePull(ps, toks) ==
    With(parseSome(ps, toks), LAMBDA r :
        IF r.pc \in {"parseCollection", "parseGameTree", "parseSequence", "parseNode"}
        THEN Fail(r, ErrClosed)
        ELSE r)

\* C23: whatever the interleaving of the two goroutines, the tokens the
\* lexer has emitted are the first tokens of the list the state functions
\* give when run in one thread, the parser is where that list's tokens
\* received so far bring it, and what Parse returns is what the parser
\* returns when fed that list.
C23_PullEquivalent ==
    /\ Len(Emitted) <= Len(Tokens)
    /\ Emitted = SubSeq(Tokens, 1, Len(Emitted))
    /\ IF Returned
       THEN parser = parsePull(Parse(input), Tokens)
       ELSE parser = parseSome(Parse(input), received)
    /\ closed => Emitted = Tokens

\* Parse has returned a tree of two nodes, read token by token
C23_Witness ==
    /\ Returned
    /\ parser.err = ErrNil
    /\ Len(received) > 8
    /\ Len(parser.collection) = 1
    /\ Len(parser.collection[1].Sequence) = 2
    /\ received = Tokens

(***************************************************************************)
(* Further properties of the sgf API, checked under SpecProperty.          *)
(***************************************************************************)
\* an optional sign, one or more digits, and optionally a '.' followed by
\* one or more digits
IsReal(text) ==
    LET s == IF text # <<>> /\ text[1] \in {"+", "-"} THEN Tail(text) ELSE text
    IN  \/ s # <<>> /\ \A i \in 1..Len(s) : s[i] \in Digits
        \/ \E d \in 2..(Len(s) - 1) :
              /\ s[d] = "."
              /\ \A i \in (1..Len(s)) \ {d} : s[i] \in Digits

\* C24: the atom real accepts the text of a value exactly when the text is
\* an optional sign, digits, and optionally a '.' and digits: a Komi
\* property made of one value has no error exactly for such a text.
C24_RealGrammar ==
    (/\ prop # <<>>
     /\ prop[1].Identity = <<"K", "M">>
     /\ Len(prop[1].Values) = 1
     /\ prop[1].Values[1].validatorName = "real")
        => (perr = ErrNil <=> IsReal(prop[1].Values[1].Value))

(***************************************************************************)
(* Further properties of the lexer, checked under SpecLexer.               *)
(***************************************************************************)
WhitespaceBytes == {" ", "\t", "\n", "\r"}

CRLFNode == <<"(", ";", "A", "[", "]", "\r", "\n", "B", "[", "a", "a", "]", ")">>

\* C25: whitespace before an identifier run and after the ']' of a value,
\* carriage return included, gives no token and no error: the error
\* 'PropertyIdent must be upper-case letters' is not sent for a run of A-Z
\* that begins after whitespace and ends at '[', and a node whose
\* properties are separated by CR LF has the tokens it has with LF.
C25_WhitespaceSkipped ==
    /\ \A i \in 1..Len(Emitted) :
          (Emitted[i].typ = "itemError" /\ Emitted[i].msg = ErrUpperCase) =>
              LET e == Skip(UpperCase, Skip(WhitespaceBytes, Emitted[i].pos))
              IN  e < Len(input) /\ input[e + 1] # "["
    /\ (closed /\ input = CRLFNode) =>
          TypesOf(received)
            = <<"itemOpenParen", "itemSemiColon",
                "itemPropertyIdent", "itemOpenBracket", "itemPropertyValue",
                "itemCloseBracket",
                "itemPropertyIdent", "itemOpenBracket", "itemPropertyValue",
                "itemCloseBracket",
                "itemCloseParen", "itemEOF">>

(***************************************************************************)
(* Further properties of Parse, checked under Spec.                        *)
(***************************************************************************)
ErrValueWithoutBracket == "parse: got a property value without an opening ["

ErrCloseWithoutBracket == "parse: got a closing ] without an opening ["

\* the token before the i-th is of type t
Follows(i, t) == i > 1 /\ Emitted[i - 1].typ = t

\* C26: among the tokens of the lexer an open bracket directly follows an
\* identifier, a value directly follows an open bracket and a close bracket
\* directly follows a value, and each of these is followed by the next of
\* the group (after an open bracket the error of an unfinished value may
\* come instead). So parseNode has a current value when it receives a
\* value or a close bracket and a current property when it calls AddValue:
\* it never returns 'got a property value without an opening [' or 'got a
\* closing ] without an opening [' and never calls AddValue on nil.
C26_BracketOrder ==
    /\ \A i \in 1..Len(Emitted) :
          /\ Emitted[i].typ = "itemOpenBracket" => Follows(i, "itemPropertyIdent")
          /\ Emitted[i].typ = "itemPropertyValue" => Follows(i, "itemOpenBracket")
          /\ Emitted[i].typ = "itemCloseBracket" => Follows(i, "itemPropertyValue")
          /\ Follows(i, "itemPropertyIdent") => Emitted[i].typ = "itemOpenBracket"
          /\ Follows(i, "itemOpenBracket")
                => Emitted[i].typ \in {"itemPropertyValue", "itemError"}
          /\ Follows(i, "itemPropertyValue") => Emitted[i].typ = "itemCloseBracket"
    /\ parser.pc # "panic"
    /\ parser.err \notin {ErrValueWithoutBracket, ErrCloseWithoutBracket}
    /\ (/\ parser.pc = "parseNode"
        /\ received # <<>>
        /\ Last(received).typ \in {"itemOpenBracket", "itemPropertyValue"})
          => parser.currentProperty # <<>> /\ parser.currentPropertyValue # <<>>

\* parseNode has received the close bracket of the value of a node's second
\* property and AddValue has added the value
C26_Witness ==
    /\ parser.pc = "parseNode"
    /\ received # <<>>
    /\ Last(received).typ = "itemCloseBracket"
    /\ Len(parser.n.Properties) = 1
    /\ parser.currentProperty # <<>>
    /\ Len(parser.currentProperty[1].Values) = 1
    /\ parser.currentPropertyValue = <<>>

ErrTopLevel == "parse: only GameTrees are allowed at the top level"

\* C27: while Parse runs, the parseGameTree calls in progress are as many
\* as the parens the received tokens leave open, and at a handoff that is
\* the lexer's treeDepth (already decremented for a close paren, and -1 for
\* the error of a ')' too many). parseCollection receives open parens, the
\* end of input and errors only, and no receive finds the channel closed:
\* Parse never returns 'only GameTrees are allowed at the top level' or
\* 'lexer channel closed unexpectedly'.
C27_DepthAgreement ==
    /\ ~Returned => Len(parser.stack) = Depth(Len(received))
    /\ (~Returned /\ items # <<>>) =>
          /\ l.treeDepth = Len(parser.stack)
                + (IF items[1].typ = "itemCloseParen"
                      \/ (items[1].typ = "itemError" /\ items[1].msg = ErrTooManyParens)
                   THEN -1 ELSE 0)
          /\ parser.pc = "parseCollection"
                => items[1].typ \in {"itemOpenParen", "itemEOF", "itemError"}
          /\ items[1].typ = "itemEOF" => parser.pc = "parseCollection"
    /\ (~Returned /\ closed) => items # <<>>
    /\ parser.err \notin {ErrTopLevel, ErrClosed}

\* the open paren of a second tree waits for parseCollection
C27_Witness ==
    /\ parser.pc = "parseCollection"
    /\ Len(parser.collection) = 1
    /\ items # <<>>
    /\ items[1].typ = "itemOpenParen"
    /\ l.treeDepth = 0

(***************************************************************************)
(* The end of input and the byte 0, checked under SpecLexer.               *)
(***************************************************************************)
\* the item reports the end of input
ReportsEnd(it) ==
    \/ it.typ = "itemEOF"
    \/ /\ it.typ = "itemError"
       /\ it.msg \in {ErrEOFInTree, ErrEOFInIdent, ErrEOFInValue}

\* C28: the lexer reports the end of input, by the end-of-input token or by
\* an 'unexpected EOF' error, only when its cursor is at the length of the
\* buffer: no byte is left unread behind that point.
C28_EndIsEndOfBuffer ==
    \A i \in 1..Len(Emitted) :
        ReportsEnd(Emitted[i]) => l.pos = Len(input)

(***************************************************************************)
(* The effect of AddValue, checked under SpecProperty.                     *)
(***************************************************************************)
\* C29: an AddValue that returns an error has changed the property all the
\* same: the property holds its former values and, after them, the value
\* that was added, and its status is invalid.
C29_AddValueKeepsTheValue ==
    [][(prop # <<>> /\ perr' # ErrNil) =>
          LET n == Len(prop[1].Values)
          IN  /\ Len(prop'[1].Values) = n + 1
              /\ SubSeq(prop'[1].Values, 1, n) = prop[1].Values
              /\ prop'[1].Values[n + 1].Value
                    \in {pv.Value : pv \in PropertyValues}
              /\ prop'[1].Validated = "Invalid"
              /\ prop'[1].Identity = prop[1].Identity]_vars

\* a property that may hold one value holds two after an AddValue that
\* returned an error: the second value came with its own validator, which
\* NewProperty would have replaced
C29_Witness ==
    /\ prop # <<>>
    /\ perr # ErrNil
    /\ prop[1].listiness = "propertyNotList"
    /\ prop[1].validatorName = "real"
    /\ Len(prop[1].Values) = 2
    /\ prop[1].Values[2].validatorName = "number"
    /\ prop[1].Validated = "Invalid"

====
